---- MODULE Spec2Model ----
(***************************************************************************)
(* A model of xlsmuncher: the field parser (ingester.FieldParser), the     *)
(* row/sheet ingestion engine (ingester.ingest_sheet / ingest_file), the   *)
(* persistence reconciliation (db_model.Procedure.find_existing / update,  *)
(* db_model.procedure_constructor, db_helper.has_required_fields) and the  *)
(* part of the two spreadsheet backends (excel/xls.py, excel/xlsx.py) that *)
(* the parser reads: cell values, cell coordinates and font attributes,    *)
(* the configuration file (ingester.read_config) and the session scope     *)
(* (database/db.py) each sheet is ingested in.                             *)
(*                                                                         *)
(* Python values are tagged records with one shape, so that any two of     *)
(* them can be compared.  A Python str is a sequence of one-character      *)
(* strings, so that splitting, joining and case folding are computed.      *)
(***************************************************************************)
EXTENDS Integers, Sequences, FiniteSets, TLC

VARIABLES
    mode,        \* which entry point the behaviour exercises: "parse" | "ingest"
    fmt,         \* the workbook's backend: "xls" (xlrd) | "xlsx" (openpyxl)
    \* ---- FieldParser.parse_cell called on one cell
    parser,      \* the FieldParser (self)
    sheet,       \* the sheet the cell lives in: a sequence of rows of cells
    pos,         \* <<row, col>> (1-based here) of the cell being parsed
    given,       \* the record argument as it was when parse_cell was called
    record,      \* the record argument (the dict parse_cell writes to)
    previous,    \* the previous_record argument
    outcome,     \* "pending" before the call, then "ok" or the exception raised
    calls,       \* number of parse_cell activations of the call (1 + nested)
    \* ---- ingest_file / ingest_sheet
    config,      \* the configuration read_config returned
    book,        \* the workbook: a sequence of sheets
    pass,        \* how many times ingest_file has been started on the book
    pc,          \* "idle" | "sheet" | "rows" | "done" | "aborted"
    sheet_no,    \* index in book of the sheet being ingested
    row_no,      \* index of the next data row of that sheet
    last_record, \* ingest_sheet's last_record
    contents,    \* the YAML configuration file, as yaml.safe_load reads it
    db_typed,    \* the database rejects a value of the wrong type for a column
                 \* (PostgreSQL: DataError) rather than storing it (SQLite)
    patients,    \* committed Patient rows (a set; idmrn is the primary key)
    procedures,  \* committed Procedure rows, in procedure_id order
    first_pass,  \* the store as it was when the first ingest_file returned
    last_event,  \* what the last ingested row did to the store
    opened,      \* Workbook(file_path) has been constructed in this run
    session      \* the session of Session.scope: "none" | "open" | "closed"

vars == <<mode, fmt, parser, sheet, pos, given, record, previous, outcome, calls,
          contents, config, book, pass, pc, sheet_no, row_no, last_record,
          db_typed, patients, procedures, first_pass, last_event, opened, session>>

parseVars == <<parser, sheet, pos, given, record, previous, outcome, calls>>
ingestVars == <<contents, config, book, pass, pc, sheet_no, row_no, last_record,
                db_typed, patients, procedures, first_pass, last_event, opened,
                session>>

-----------------------------------------------------------------------------
(* Bounds of the model *)

\* longest generated cell text in the parse_cell specification
MaxLen == 3
\* most data rows of a generated sheet in the ingestion specification
MaxRows == 2
\* how many times ingest_file is run on the same workbook
MaxPasses == 2

-----------------------------------------------------------------------------
(* Python values *)

None == [t |-> "none", s |-> <<>>, n |-> 0]
Absent == [t |-> "absent", s |-> <<>>, n |-> 0]
Str(s) == [t |-> "str", s |-> s, n |-> 0]
Num(n) == [t |-> "int", s |-> <<>>, n |-> n]
Bool(b) == [t |-> "bool", s |-> <<>>, n |-> IF b THEN 1 ELSE 0]
Date(y, m, d) == [t |-> "date", s |-> <<>>, n |-> (y * 10000) + (m * 100) + d]

True == Bool(TRUE)
False == Bool(FALSE)

\* bool(value)
Truthy(v) ==
    CASE v.t = "none" -> FALSE
      [] v.t = "absent" -> FALSE
      [] v.t = "str" -> Len(v.s) > 0
      [] v.t = "int" -> v.n # 0
      [] v.t = "bool" -> v.n = 1
      [] OTHER -> TRUE

\* value in [None, '']
Blank(v) == v = None \/ v = Str(<<>>)

\* isinstance(value, str)
IsStr(v) == v.t = "str"

\* isinstance(value, datetime.date)
IsDate(v) == v.t = "date"

-----------------------------------------------------------------------------
(* Python str operations *)

\* str.isspace for one character
IsSpace(c) == c \in {" ", "\t"}

\* s[::-1]
Reverse(s) == [i \in 1..Len(s) |-> s[Len(s) + 1 - i]]

\* index of the first character of s at or after i that satisfies / fails
\* IsSpace, Len(s) + 1 if there is none
RECURSIVE SkipSpace(_, _)
SkipSpace(s, i) ==
    IF i > Len(s) \/ ~IsSpace(s[i]) THEN i ELSE SkipSpace(s, i + 1)

RECURSIVE SkipWord(_, _)
SkipWord(s, i) ==
    IF i > Len(s) \/ IsSpace(s[i]) THEN i ELSE SkipWord(s, i + 1)

\* s.split(maxsplit=1): a sequence of zero, one or two strings
Split1(s) ==
    LET a == SkipSpace(s, 1)
        b == SkipWord(s, a)
        c == SkipSpace(s, b)
    IN  IF a > Len(s) THEN <<>>
        ELSE IF c > Len(s) THEN <<SubSeq(s, a, b - 1)>>
        ELSE <<SubSeq(s, a, b - 1), SubSeq(s, c, Len(s))>>

\* s.strip()
RECURSIVE RStrip(_)
RStrip(s) ==
    IF Len(s) > 0 /\ IsSpace(s[Len(s)]) THEN RStrip(SubSeq(s, 1, Len(s) - 1)) ELSE s

Strip(s) == LET a == SkipSpace(s, 1) IN RStrip(SubSeq(s, a, Len(s)))

LowerChar(c) ==
    CASE c = "A" -> "a" [] c = "B" -> "b" [] c = "C" -> "c"
      [] c = "D" -> "d" [] c = "E" -> "e" [] c = "F" -> "f"
      [] c = "N" -> "n" [] c = "O" -> "o" [] c = "Y" -> "y" [] c = "S" -> "s"
      [] OTHER -> c

\* s.lower()
Lower(s) == [i \in 1..Len(s) |-> LowerChar(s[i])]

-----------------------------------------------------------------------------
(* excel/common.py *)

HexDigits == <<"0", "1", "2", "3", "4", "5", "6", "7",
               "8", "9", "a", "b", "c", "d", "e", "f">>

\* int(c, 16) of one hexadecimal digit, either case
HexVal(c) == CHOOSE n \in 0..15 : HexDigits[n + 1] = LowerChar(c)

\* '{:02x}'.format(n)
Hex2(n) == <<HexDigits[(n \div 16) + 1], HexDigits[(n % 16) + 1]>>

\* rgb2hex(colour): an RGB tuple to a hex colour code
rgb2hex(colour) == Hex2(colour[1]) \o Hex2(colour[2]) \o Hex2(colour[3])

\* hex2rgb(colour): a six-digit hex string to an RGB tuple
hex2rgb(colour) ==
    LET hex2int(offset) ==
            (16 * HexVal(colour[offset + 1])) + HexVal(colour[offset + 2])
    IN  <<hex2int(0), hex2int(2), hex2int(4)>>

-----------------------------------------------------------------------------
(* Cells, as the two libraries hand them over.                             *)
(* A colour is [type, hex, idx, tint, rgb]:                                *)
(*   openpyxl Color  type "rgb" (hex = 'AARRGGBB' as written in the file), *)
(*                   type "indexed" (idx into COLOR_INDEX), type "theme"   *)
(*                   (hex = the theme's colour, tint in thousandths);      *)
(*   xlrd colour_map type "tuple" (rgb = <<r, g, b>>);                     *)
(*   type "none" is Python None in both.                                   *)
(* A fill is xlrd's XF background: [pattern, bg, fg], the two colours      *)
(* being colour_map[background_colour_index] and                           *)
(* colour_map[pattern_colour_index].                                       *)

NoColour == [type |-> "none", hex |-> <<>>, idx |-> 0, tint |-> 0, rgb |-> <<0, 0, 0>>]
RgbColour(h) == [type |-> "rgb", hex |-> h, idx |-> 0, tint |-> 0, rgb |-> <<0, 0, 0>>]
IndexedColour(i) == [type |-> "indexed", hex |-> <<>>, idx |-> i, tint |-> 0, rgb |-> <<0, 0, 0>>]
ThemeColour(h, tint) == [type |-> "theme", hex |-> h, idx |-> 0, tint |-> tint, rgb |-> <<0, 0, 0>>]
TupleColour(r, g, b) == [type |-> "tuple", hex |-> <<>>, idx |-> 0, tint |-> 0, rgb |-> <<r, g, b>>]

NoFill == [pattern |-> 0, bg |-> NoColour, fg |-> NoColour]
PlainFont == [strike |-> FALSE, color |-> NoColour, fill |-> NoFill]

MkCell(value, font) == [value |-> value, font |-> font]
EmptyCell == MkCell(None, PlainFont)

\* openpyxl.styles.colors.COLOR_INDEX, its first entries
COLOR_INDEX ==
    <<<<"0", "0", "0", "0", "0", "0", "0", "0">>,
      <<"0", "0", "F", "F", "F", "F", "F", "F">>,
      <<"0", "0", "F", "F", "0", "0", "0", "0">>,
      <<"0", "0", "0", "0", "F", "F", "0", "0">>>>

\* int(round(x / 1000)) for x >= 0: Python rounds halves to the even integer
RoundThousandths(x) ==
    LET q == x \div 1000
        r == x % 1000
    IN  IF r > 500 \/ (r = 500 /\ q % 2 = 1) THEN q + 1 ELSE q

\* xlsx.Workbook.convert_colour
convert_colour(colour) ==
    IF colour.type = "none" THEN <<"f", "f", "f", "f", "f", "f">>
    ELSE IF colour.type = "rgb" THEN SubSeq(colour.hex, 3, Len(colour.hex))
    ELSE IF colour.type = "indexed"
    THEN SubSeq(COLOR_INDEX[colour.idx + 1], 3, 8)
    ELSE LET base == hex2rgb(colour.hex)
             shade(i) ==
                 IF colour.tint < 0 THEN RoundThousandths(i * (1000 + colour.tint))
                 ELSE IF colour.tint > 0
                 THEN RoundThousandths((i * 1000) + ((255 - i) * colour.tint))
                 ELSE i
         IN  rgb2hex(<<shade(base[1]), shade(base[2]), shade(base[3])>>)

\* getattr(cell.font, mark): [exc, val].  The value is a Python bool, a hex
\* string, or None.
FontOk(v) == [exc |-> "none", val |-> v]
FontRaise(e) == [exc |-> e, val |-> None]

\* xlsx.Font
XlsxFont(cell, mark) ==
    CASE mark = "strike" -> FontOk(Bool(cell.font.strike))
      [] mark = "background" -> FontRaise("NotImplementedError")
      [] mark = "foreground" -> FontOk(Str(convert_colour(cell.font.color)))
      [] OTHER -> FontRaise("NotImplementedError")

\* xls.Font
XlsFont(cell, mark) ==
    CASE mark = "strike" -> FontOk(Bool(cell.font.strike))
      [] mark = "background" ->
            LET bg == cell.font.fill
                colour == IF bg.pattern = 0 THEN bg.bg
                          ELSE IF bg.pattern = 1 THEN bg.fg
                          ELSE NoColour
            IN  IF colour.type = "tuple" THEN FontOk(Str(rgb2hex(colour.rgb)))
                ELSE FontOk(Str(<<"f", "f", "f", "f", "f", "f">>))
      [] mark = "foreground" -> FontRaise("NameError")
      [] OTHER ->
            LET colour == cell.font.color
            IN  IF colour.type = "tuple" THEN FontOk(Bool(colour.rgb[1] > 200))
                ELSE FontOk(None)

\* cell.font.<mark> on the workbook's backend
FontAttr(f, cell, mark) == IF f = "xlsx" THEN XlsxFont(cell, mark) ELSE XlsFont(cell, mark)

\* len(row) and the cell of a sheet at 1-based (r, c); the sheet is a
\* sequence of rows, a row a sequence of cells
InSheet(sh, r, c) == r \in 1..Len(sh) /\ c \in 1..Len(sh[r])

\* evaluating cell.row / cell.col: xls.Cell raises, xlsx.Cell answers
CellCoordRaises(f) == f = "xls"

\* xlsx.Sheet.cell(row, col): openpyxl creates the cell when it is not there
XlsxSheetCell(sh, r, c) == IF InSheet(sh, r, c) THEN sh[r][c] ELSE EmptyCell

-----------------------------------------------------------------------------
(* database/db_model.py: the schema *)

DateTime(y, m, d) == [t |-> "datetime", s |-> <<>>, n |-> (y * 10000) + (m * 100) + d]

\* Patient.__table__.columns
PatientCols == {"idmrn", "patient_given_name", "patient_family_name",
                "date_of_birth", "nhs_number", "sex"}

\* Procedure.__table__.columns without the autoincrement procedure_id
ProcedureCols == {"idmrn", "surgical_procedure", "surgical_date",
                  "surgical_priority", "surgical_consultant", "surgical_pathway",
                  "surgical_notes", "pacu_request", "cancelled"}

\* the keys a record (the dict built for one row) can hold
RecordKeys == PatientCols \cup ProcedureCols

\* column.type.__class__.__name__
ColType(name) ==
    CASE name \in {"date_of_birth", "surgical_date"} -> "Date"
      [] name \in {"pacu_request", "cancelled"} -> "Boolean"
      [] name = "sex" -> "Integer"
      [] name = "surgical_notes" -> "Text"
      [] OTHER -> "String"

\* {} : the empty dict
EmptyRecord == [k \in RecordKeys |-> Absent]

\* dict.get(key, None)
Get(rec, key) == IF rec[key] = Absent THEN None ELSE rec[key]

\* previous_record arguments: None, or a dict
NoPrevious == [none |-> TRUE, rec |-> EmptyRecord]
Previous(rec) == [none |-> FALSE, rec |-> rec]

\* bool(previous_record): None and {} are false
PreviousTruthy(prev) == ~prev.none /\ prev.rec # EmptyRecord

-----------------------------------------------------------------------------
(* Date texts: datetime.strptime and dateutil.parser.parse, for texts made *)
(* of three runs of digits around one separator character, and for texts   *)
(* that hold a letter (which neither accepts).                             *)

IsDigit(c) == c \in {"0", "1", "2", "3", "4", "5", "6", "7", "8", "9"}

DigitVal(c) == CHOOSE n \in 0..9 : HexDigits[n + 1] = c

AllDigits(s) == Len(s) > 0 /\ \A i \in 1..Len(s) : IsDigit(s[i])

RECURSIVE ToInt(_)
ToInt(s) ==
    IF Len(s) = 0 THEN 0
    ELSE (10 * ToInt(SubSeq(s, 1, Len(s) - 1))) + DigitVal(s[Len(s)])

\* s.split(sep)
RECURSIVE SplitOn(_, _)
SplitOn(s, sep) ==
    IF \A i \in 1..Len(s) : s[i] # sep THEN <<s>>
    ELSE LET i == CHOOSE j \in 1..Len(s) :
                      s[j] = sep /\ \A k \in 1..(j - 1) : s[k] # sep
         IN  <<SubSeq(s, 1, i - 1)>> \o SplitOn(SubSeq(s, i + 1, Len(s)), sep)

IsLeap(y) == (y % 4 = 0 /\ y % 100 # 0) \/ y % 400 = 0

DaysIn(y, m) ==
    IF m = 2 THEN (IF IsLeap(y) THEN 29 ELSE 28)
    ELSE IF m \in {4, 6, 9, 11} THEN 30 ELSE 31

\* datetime.date(y, m, d) does not raise ValueError
ValidDate(y, m, d) == y \in 1..9999 /\ m \in 1..12 /\ d \in 1..DaysIn(y, m)

\* the day after, and the day before, a datetime.date
NextDay(date) ==
    LET y == date.n \div 10000
        m == (date.n \div 100) % 100
        d == date.n % 100
    IN  IF d < DaysIn(y, m) THEN Date(y, m, d + 1)
        ELSE IF m < 12 THEN Date(y, m + 1, 1)
        ELSE Date(y + 1, 1, 1)

PrevDay(date) ==
    LET y == date.n \div 10000
        m == (date.n \div 100) % 100
        d == date.n % 100
    IN  IF d > 1 THEN Date(y, m, d - 1)
        ELSE IF m > 1 THEN Date(y, m - 1, DaysIn(y, m - 1))
        ELSE Date(y - 1, 12, 31)

\* date + datetime.timedelta(days=days)
RECURSIVE AddDays(_, _)
AddDays(date, days) ==
    IF days = 0 THEN date
    ELSE IF days > 0 THEN AddDays(NextDay(date), days - 1)
    ELSE AddDays(PrevDay(date), days + 1)

Parsed(v) == [ok |-> TRUE, value |-> v]
ValueError == [ok |-> FALSE, value |-> None]

\* datetime.datetime.strptime(text, date_format).date() for a format
\* [order, sep]: three of %d, %m, %Y joined by the character sep
strptime(text, date_format) ==
    LET toks == SplitOn(text, date_format.sep)
        at(d) == toks[CHOOSE i \in 1..3 : date_format.order[i] = d]
        fits(i) ==
            /\ AllDigits(toks[i])
            /\ IF date_format.order[i] = "Y" THEN Len(toks[i]) = 4
               ELSE Len(toks[i]) \in 1..2
    IN  IF Len(toks) = 3 /\ \A i \in 1..3 : fits(i)
           /\ ValidDate(ToInt(at("Y")), ToInt(at("m")), ToInt(at("d")))
        THEN Parsed(Date(ToInt(at("Y")), ToInt(at("m")), ToInt(at("d"))))
        ELSE ValueError

DateSeparators == {"/", "-", "."}

\* dateutil.parser.parse(text, ignoretz=True, dayfirst=True, fuzzy=False).date():
\* the three numbers are resolved as dateutil's _ymd.resolve does with
\* dayfirst set and yearfirst not set
parse_date(text) ==
    LET body == Strip(text)
        seps == {body[i] : i \in 1..Len(body)} \cap DateSeparators
        toks == IF Cardinality(seps) = 1
                THEN SplitOn(body, CHOOSE c \in seps : TRUE) ELSE <<>>
        n(i) == ToInt(toks[i])
        yearFirst == Len(toks[1]) = 4
        y == IF yearFirst THEN n(1) ELSE n(3)
        m == IF yearFirst THEN (IF n(3) <= 12 THEN n(3) ELSE n(2))
             ELSE IF n(1) > 12 \/ n(2) <= 12 THEN n(2) ELSE n(1)
        d == IF yearFirst THEN (IF n(3) <= 12 THEN n(2) ELSE n(3))
             ELSE IF n(1) > 12 \/ n(2) <= 12 THEN n(1) ELSE n(2)
    IN  IF /\ Len(toks) = 3
           /\ \A i \in 1..3 : AllDigits(toks[i])
           /\ Len(toks[2]) \in 1..2
           /\ \/ Len(toks[1]) = 4 /\ Len(toks[3]) \in 1..2
              \/ Len(toks[3]) = 4 /\ Len(toks[1]) \in 1..2
           /\ ValidDate(y, m, d)
        THEN Parsed(Date(y, m, d))
        ELSE ValueError

\* dateutil.parser.parse(text).date(), with neither dayfirst nor yearfirst:
\* a year in front is followed by month and day, and of two numbers in
\* front of the year the first is the month unless it is above 12
parse_date_default(text) ==
    LET body == Strip(text)
        seps == {body[i] : i \in 1..Len(body)} \cap DateSeparators
        toks == IF Cardinality(seps) = 1
                THEN SplitOn(body, CHOOSE c \in seps : TRUE) ELSE <<>>
        n(i) == ToInt(toks[i])
        yearFirst == Len(toks[1]) = 4
        y == IF yearFirst THEN n(1) ELSE n(3)
        m == IF yearFirst THEN n(2) ELSE IF n(1) > 12 THEN n(2) ELSE n(1)
        d == IF yearFirst THEN n(3) ELSE IF n(1) > 12 THEN n(1) ELSE n(2)
    IN  IF /\ Len(toks) = 3
           /\ \A i \in 1..3 : AllDigits(toks[i])
           /\ Len(toks[2]) \in 1..2
           /\ \/ Len(toks[1]) = 4 /\ Len(toks[3]) \in 1..2
              \/ Len(toks[3]) = 4 /\ Len(toks[1]) \in 1..2
           /\ ValidDate(y, m, d)
        THEN Parsed(Date(y, m, d))
        ELSE ValueError

-----------------------------------------------------------------------------
(* ingester.FieldParser *)

\* FieldParser.__init__; "" stands for an argument left None
FieldParser(db_col_name, extra_column, data_insert_method, propagate_missing_values, check_next_first, cancellation_mark, cancellation_colours, extra_date_formats, day_offsets) ==
    [db_col_name |-> db_col_name,
     extra_column_name |-> extra_column,
     data_insert_method |-> data_insert_method,
     propagate_missing_values |-> propagate_missing_values,
     check_next_first |-> check_next_first,
     cancellation_mark |-> cancellation_mark,
     cancellation_colours |-> {Lower(col) : col \in cancellation_colours},
     extra_date_formats |-> extra_date_formats,
     day_offsets |-> day_offsets,
     value_transformers |-> {}]

\* a parser with every option at its default
PlainParser(db_col_name) ==
    FieldParser(db_col_name, "", "replace", FALSE, FALSE, "", {}, <<>>, {})

\* one entry of a parser's day_offsets
DayOffset(key, offset) == [key |-> key, offset |-> offset]

\* FieldParser.set_date_basis: every key of day_offsets gets, in
\* value_transformers, the start date with its offset added on
set_date_basis(self, start_date) ==
    [self EXCEPT !.value_transformers =
        {e \in @ : \A o \in self.day_offsets : o.key # e.key}
        \cup {[key |-> o.key, value |-> AddDays(start_date, o.offset)] :
                  o \in self.day_offsets}]

\* The state of one parse_cell activation: the local `value`, the record
\* (the dict is written in place), the exception raised ("none" so far), ret
\* (the activation has returned early) and the activations run so far.
Activation(cell, rec) ==
    [value |-> cell.value, rec |-> rec, exc |-> "none", ret |-> FALSE, calls |-> 1]

\* the activation is still running
Live(st) == st.exc = "none" /\ ~st.ret

\* lines 118-120: value = self.value_transformers[value]
Transformed(self, st) ==
    IF Live(st) /\ self.value_transformers # {} /\ Truthy(st.value)
    THEN IF \E e \in self.value_transformers : Str(e.key) = st.value
         THEN [st EXCEPT !.value =
                  (CHOOSE e \in self.value_transformers : Str(e.key) = st.value).value]
         ELSE [st EXCEPT !.exc = "KeyError"]
    ELSE st

\* lines 123-129: the first extra_date_format that strptime accepts
RECURSIVE FirstFormat(_, _, _)
FirstFormat(text, formats, i) ==
    IF i > Len(formats) THEN ValueError
    ELSE LET got == strptime(Strip(text), formats[i])
         IN  IF got.ok THEN got ELSE FirstFormat(text, formats, i + 1)

\* DateRecovered that goes on with the text when nothing parses it
DateRecoveredKeepsText(self, st) ==
    IF Live(st) /\ ColType(self.db_col_name) = "Date" /\ IsStr(st.value) /\ Truthy(st.value)
    THEN IF FirstFormat(st.value.s, self.extra_date_formats, 1).ok
         THEN [st EXCEPT !.value = FirstFormat(st.value.s, self.extra_date_formats, 1).value]
         ELSE IF parse_date(st.value.s).ok
         THEN [st EXCEPT !.value = parse_date(st.value.s).value]
         ELSE st
    ELSE st

\* lines 121-136: a date given as text; when nothing parses it, return
DateRecovered(self, st) ==
    IF Live(st) /\ ColType(self.db_col_name) = "Date" /\ IsStr(st.value) /\ Truthy(st.value)
    THEN LET got == FirstFormat(st.value.s, self.extra_date_formats, 1)
             fallback == parse_date(st.value.s)
         IN  IF got.ok THEN [st EXCEPT !.value = got.value]
             ELSE IF fallback.ok THEN [st EXCEPT !.value = fallback.value]
             ELSE [st EXCEPT !.ret = TRUE]
    ELSE st

\* lines 137-145: datetime to date, 'y'/'n' to bool
Coerced(self, st) ==
    IF ~Live(st) THEN st
    ELSE IF ColType(self.db_col_name) = "Date" /\ st.value.t = "datetime"
    THEN [st EXCEPT !.value.t = "date"]
    ELSE IF ColType(self.db_col_name) = "Boolean" /\ IsStr(st.value)
    THEN IF Lower(st.value.s) \in {<<"n">>, <<"n", "o">>} THEN [st EXCEPT !.value = False]
         ELSE IF Lower(st.value.s) \in {<<"y">>, <<"y", "e", "s">>}
         THEN [st EXCEPT !.value = True]
         ELSE st
    ELSE st

\* Inserted with the separating space left out of the concatenation
InsertedNoSeparator(self, st) ==
    IF ~Live(st) THEN st
    ELSE IF self.data_insert_method = "append"
            /\ Truthy(Get(st.rec, self.db_col_name)) /\ Truthy(st.value)
    THEN IF IsStr(st.rec[self.db_col_name]) /\ IsStr(st.value)
         THEN [st EXCEPT !.rec[self.db_col_name] = Str(@.s \o st.value.s)]
         ELSE [st EXCEPT !.exc = "TypeError"]
    ELSE [st EXCEPT !.rec[self.db_col_name] = st.value]

\* lines 146-151: append to or replace the record's entry
Inserted(self, st) ==
    IF ~Live(st) THEN st
    ELSE IF self.data_insert_method = "append"
            /\ Truthy(Get(st.rec, self.db_col_name)) /\ Truthy(st.value)
    THEN IF IsStr(st.rec[self.db_col_name]) /\ IsStr(st.value)
         THEN [st EXCEPT !.rec[self.db_col_name] = Str(@.s \o <<" ">> \o st.value.s)]
         ELSE [st EXCEPT !.exc = "TypeError"]
    ELSE [st EXCEPT !.rec[self.db_col_name] = st.value]

\* lines 152-157: the value split over the primary and the extra column
SplitColumns(self, st) ==
    IF Live(st) /\ self.extra_column_name # "" /\ Truthy(st.value)
    THEN IF ~IsStr(st.value) THEN [st EXCEPT !.exc = "TypeError"]
         ELSE LET rev == Split1(Reverse(st.value.s))
                  parts == [i \in 1..Len(rev) |-> Reverse(rev[i])] \o <<<<" ">>>>
              IN  IF Len(rev) = 0 THEN [st EXCEPT !.exc = "IndexError"]
                  ELSE [st EXCEPT !.rec[self.db_col_name] = Str(parts[1]),
                                  !.rec[self.extra_column_name] = Str(parts[2])]
    ELSE st

\* lines 164-166: the previous record's value, when the entry is still blank
FromPrevious(self, rec, prev) ==
    IF Blank(rec[self.db_col_name]) /\ PreviousTruthy(prev)
       /\ Get(prev.rec, self.db_col_name) # None
    THEN [rec EXCEPT ![self.db_col_name] = prev.rec[self.db_col_name]]
    ELSE rec

RECURSIVE parse_cell(_, _, _, _, _, _, _)

\* Propagated whose nested call is given the previous record as long as the
\* next row is a row of the sheet, and so looks ahead again
PropagatedUnguarded(self, f, sh, r, c, prev, st) ==
    IF Live(st) /\ self.propagate_missing_values /\ Blank(st.rec[self.db_col_name])
    THEN IF self.check_next_first /\ ~prev.none
         THEN IF CellCoordRaises(f) THEN [st EXCEPT !.exc = "NotImplementedError"]
              ELSE LET nested == parse_cell(self, f, sh, r + 1, c, st.rec,
                                            IF r + 1 <= Len(sh) THEN prev ELSE NoPrevious)
                   IN  IF nested.exc # "none"
                       THEN [st EXCEPT !.rec = nested.rec, !.exc = nested.exc,
                                       !.calls = @ + nested.calls]
                       ELSE [st EXCEPT !.rec = FromPrevious(self, nested.rec, prev),
                                       !.calls = @ + nested.calls]
         ELSE [st EXCEPT !.rec = FromPrevious(self, st.rec, prev)]
    ELSE st

\* lines 158-166: a blank entry is filled from the next row's cell (which
\* needs cell.row and cell.col) and else from the previous record
Propagated(self, f, sh, r, c, prev, st) ==
    IF Live(st) /\ self.propagate_missing_values /\ Blank(st.rec[self.db_col_name])
    THEN IF self.check_next_first /\ ~prev.none
         THEN IF CellCoordRaises(f) THEN [st EXCEPT !.exc = "NotImplementedError"]
              ELSE LET nested == parse_cell(self, f, sh, r + 1, c, st.rec, NoPrevious)
                   IN  IF nested.exc # "none"
                       THEN [st EXCEPT !.rec = nested.rec, !.exc = nested.exc,
                                       !.calls = @ + nested.calls]
                       ELSE [st EXCEPT !.rec = FromPrevious(self, nested.rec, prev),
                                       !.calls = @ + nested.calls]
         ELSE [st EXCEPT !.rec = FromPrevious(self, st.rec, prev)]
    ELSE st

\* lines 167-173: the cancellation mark of the cell
Cancellation(self, f, cell, st) ==
    IF ~Live(st) \/ self.cancellation_mark = "" THEN st
    ELSE LET mark == FontAttr(f, cell, self.cancellation_mark)
         IN  IF mark.exc # "none" THEN [st EXCEPT !.exc = mark.exc]
             ELSE IF Truthy(mark.val)
                     /\ \/ self.cancellation_mark \notin {"background", "foreground"}
                        \/ mark.val.s \in self.cancellation_colours
             THEN [st EXCEPT !.rec["cancelled"] = True]
             ELSE st

\* what a parse_cell call hands back: the record as it left it, the
\* exception it raised ("none" if it returned) and how many activations ran
Result(st) == [rec |-> st.rec, exc |-> st.exc, calls |-> st.calls]

\* FieldParser.parse_cell(cell, record, previous_record), cell being the
\* cell at (r, c) of sheet sh of a workbook of backend f
parse_cell(self, f, sh, r, c, rec, prev) ==
    Result(
      Cancellation(self, f, XlsxSheetCell(sh, r, c),
        Propagated(self, f, sh, r, c, prev,
          SplitColumns(self,
            Inserted(self,
              Coerced(self,
                DateRecovered(self,
                  Transformed(self,
                    Activation(XlsxSheetCell(sh, r, c), rec)))))))))

-----------------------------------------------------------------------------
(* database/db_helper.py and database/db_model.py: records to rows *)

\* the columns has_required_fields insists on: not nullable, not
\* autoincrement, no default (Patient.idmrn is the primary key; cancelled
\* has a default; Procedure.idmrn is nullable)
RequiredCols == {"idmrn", "patient_given_name", "patient_family_name",
                 "surgical_procedure", "surgical_date", "surgical_pathway"}

\* has_required_fields with the Patient columns left out of all_db_columns
RequiredOfProcedureOnly(rec) ==
    \A name \in RequiredCols \cap (ProcedureCols \ {"idmrn"}) : Truthy(Get(rec, name))

\* has_required_fields(procedure)
has_required_fields(rec) == \A name \in RequiredCols : Truthy(Get(rec, name))

\* the decimal digits of n >= 0
RECURSIVE Digits(_)
Digits(n) ==
    IF n < 10 THEN <<HexDigits[n + 1]>>
    ELSE Append(Digits(n \div 10), HexDigits[(n % 10) + 1])

\* n written with at least two digits
TwoDigits(n) == IF n < 10 THEN <<"0">> \o Digits(n) ELSE Digits(n)

\* str(value)
PyStr(v) ==
    CASE v.t = "str" -> v
      [] v.t = "int" -> Str(IF v.n < 0 THEN <<"-">> \o Digits(-v.n) ELSE Digits(v.n))
      [] v.t = "bool" -> Str(IF v.n = 1 THEN <<"T", "r", "u", "e">>
                                         ELSE <<"F", "a", "l", "s", "e">>)
      [] v.t \in {"date", "datetime"} ->
            Str(Digits(v.n \div 10000) \o <<"-">> \o TwoDigits((v.n \div 100) % 100)
                \o <<"-">> \o TwoDigits(v.n % 100)
                \o (IF v.t = "datetime" THEN <<" ", "0", "0", ":", "0", "0", ":", "0", "0">>
                    ELSE <<>>))
      [] OTHER -> Str(<<"N", "o", "n", "e">>)

\* the value augment_argument_map stores for column `name`
AugmentedValue(name, value) ==
    IF ColType(name) \in {"String", "Text"} THEN PyStr(value)
    ELSE IF ColType(name) = "Boolean" THEN Bool(Truthy(value))
    ELSE IF ColType(name) = "Date" /\ value.t \notin {"date", "datetime"} THEN None
    ELSE value

\* the keyword arguments procedure_constructor works on: the record, with
\* pacu_request defaulting to None and cancelled to False
Keyword(rec, name) ==
    IF name = "cancelled" /\ rec[name] = Absent THEN False ELSE Get(rec, name)

\* augment_argument_map over all of kwargs, for the columns of one table:
\* the constructor arguments; Absent marks an attribute never set
augment_argument_map(rec, cols) ==
    [name \in cols |->
        IF Keyword(rec, name) # None THEN AugmentedValue(name, Keyword(rec, name))
        ELSE Absent]

\* procedure_constructor(**record): the transient Procedure and its Patient
procedure_constructor(rec) ==
    [proc |-> augment_argument_map(rec, ProcedureCols),
     patient |-> augment_argument_map(rec, PatientCols)]

\* getattr(instance, name) of a transient instance: None when never set
Attr(obj, name) == IF obj[name] = Absent THEN None ELSE obj[name]

\* the columns find_existing filters on
NaturalKey == <<"idmrn", "surgical_procedure", "surgical_date">>

KeyOf(row) == [i \in 1..3 |-> Attr(row, NaturalKey[i])]

\* find_existing that never finds a stored procedure
MatchesNothing(procs, proc) == {}

\* find_existing that leaves surgical_procedure out of the filter
MatchesOnPatientAndDate(procs, proc) ==
    {i \in DOMAIN procs :
        /\ procs[i]["idmrn"] = Attr(proc, "idmrn")
        /\ procs[i]["surgical_date"] = Attr(proc, "surgical_date")}

\* Procedure.find_existing, the query: the ids (1-based positions) of the
\* stored procedures that filter_by(idmrn, surgical_procedure, surgical_date)
\* selects
Matches(procs, proc) == {i \in DOMAIN procs : KeyOf(procs[i]) = KeyOf(proc)}

\* Procedure.update copying every attribute, null or not
UpdateCopiesNulls(row, other) == [name \in ProcedureCols |-> Attr(other, name)]

\* Procedure.update(other): the non-null attributes of other, over self
update(row, other) ==
    [name \in ProcedureCols |->
        IF Attr(other, name) # None THEN Attr(other, name) ELSE row[name]]

\* the Procedure row that flushing a new (merged) instance inserts
InsertedProcedure(proc) ==
    [name \in ProcedureCols |->
        IF name = "cancelled" /\ Attr(proc, name) = None THEN False ELSE Attr(proc, name)]

\* session.merge on the Patient: the attributes that were set are copied
\* onto the stored row with the same idmrn, or a new row is made of them
MergedPatients(pats, patient) ==
    LET id == Attr(patient, "idmrn")
        merged(old) == [name \in PatientCols |->
                           IF patient[name] # Absent THEN patient[name] ELSE old[name]]
        fresh == [name \in PatientCols |-> Attr(patient, name)]
    IN  IF \E old \in pats : old["idmrn"] = id
        THEN {IF old["idmrn"] = id THEN merged(old) ELSE old : old \in pats}
        ELSE pats \cup {fresh}

\* the rows the session would write for a candidate: an update of the one
\* stored procedure with its natural key, or else the merge (a new Procedure
\* and its Patient merged by idmrn); one_or_none raises on several rows
Reconciled(store, cand, found) ==
    IF Cardinality(found) > 1
    THEN [exc |-> "MultipleResultsFound", kind |-> "raised", id |-> 0,
          patients |-> store.patients, procedures |-> store.procedures]
    ELSE IF found # {}
    THEN LET i == CHOOSE k \in found : TRUE
         IN  [exc |-> "none", kind |-> "updated", id |-> i,
              patients |-> store.patients,
              procedures |-> [store.procedures EXCEPT ![i] = update(@, cand.proc)]]
    ELSE [exc |-> "none", kind |-> "created", id |-> Len(store.procedures) + 1,
          patients |-> MergedPatients(store.patients, cand.patient),
          procedures |-> Append(store.procedures,
                                update(InsertedProcedure(cand.proc), cand.proc))]

\* session.commit() raises IntegrityError: a NOT NULL column is null
ViolatesNotNull(pending) ==
    \/ \E i \in DOMAIN pending.procedures :
          \E name \in {"surgical_procedure", "surgical_date", "surgical_pathway", "cancelled"} :
              pending.procedures[i][name] = None
    \/ \E p \in pending.patients :
          \E name \in {"idmrn", "patient_given_name", "patient_family_name"} :
              p[name] = None

\* session.commit() raises StatementError (DataError): a value is not of
\* its column's type, on a database that checks
ViolatesType(pending, typed) ==
    typed /\ \E p \in pending.patients : p["sex"] # None /\ p["sex"].t # "int"

\* session.rollback() that undoes the Procedure rows only
RollbackKeepsPatients(store, pending) ==
    [patients |-> pending.patients, procedures |-> store.procedures]

\* session.rollback(): back to what was last committed
rollback(store, pending) ==
    [patients |-> store.patients, procedures |-> store.procedures]

\* session.commit() on the pending rows; on IntegrityError / StatementError
\* the warning and session.rollback()
Committed(store, pending, typed) ==
    IF pending.exc # "none"
    THEN [exc |-> pending.exc, kind |-> "raised", id |-> 0, store |-> store]
    ELSE IF ViolatesNotNull(pending) \/ ViolatesType(pending, typed)
    THEN [exc |-> "none", kind |-> "rolled_back", id |-> 0,
          store |-> rollback(store, pending)]
    ELSE [exc |-> "none", kind |-> pending.kind, id |-> pending.id,
          store |-> [patients |-> pending.patients, procedures |-> pending.procedures]]

\* procedure.find_existing(session) and the update that follows it
Found(store, cand) == Reconciled(store, cand, Matches(store.procedures, cand.proc))

\* lines 273-287 of ingest_sheet, for a complete record
Upserted(store, rec, typed) ==
    Committed(store, Found(store, procedure_constructor(rec)), typed)

\* lines 272-287 of ingest_sheet: what becomes of a parsed row
RowOutcome(row, store, typed) ==
    IF row.exc # "none"
    THEN [exc |-> row.exc, kind |-> "raised", id |-> 0, store |-> store]
    ELSE IF has_required_fields(row.rec) THEN Upserted(store, row.rec, typed)
    ELSE [exc |-> "none", kind |-> "dropped", id |-> 0, store |-> store]

\* Session.scope() swallowing the exception of its body
ScopeSwallows(store, pending, exc) ==
    [store |-> store, exc |-> "none", session |-> "closed"]

\* the exit of `with Session.scope() as session`: commit when the body ended
\* normally, rollback and re-raise when it raised exc, close in both cases.
\* store is what is committed, pending what the session holds
session_scope(store, pending, exc) ==
    IF exc = "none"
    THEN [store |-> pending, exc |-> "none", session |-> "closed"]
    ELSE [store |-> rollback(store, pending), exc |-> exc, session |-> "closed"]

-----------------------------------------------------------------------------
(* ingester.read_config, ingest_sheet and ingest_file *)

\* one entry of the `columns` list of the configuration file; an option
\* that is left out has FieldParser's default
ColumnDef(excel_heading, column_name, extra_column) ==
    [excel_heading |-> excel_heading, column_name |-> column_name,
     extra_column |-> extra_column, data_insert_method |-> "replace",
     propagate_missing_values |-> FALSE, check_next_first |-> FALSE,
     cancellation_mark |-> "", cancellation_colours |-> {},
     extra_date_formats |-> <<>>, day_offsets |-> {}]

\* a YAML list
List(items) == [t |-> "list", s |-> items, n |-> 0]

\* a configuration file as yaml.safe_load returns it: every global setting
\* is a Python value, Absent when the file leaves it out; `unknown` are the
\* top-level keys of the file besides the five settings and `columns`.
\* Here surgical_pathway is "" for no setting, or the text of the setting.
Contents(surgical_pathway, heading_row, columns) ==
    [surgical_pathway |-> IF surgical_pathway = "" THEN Absent ELSE Str(surgical_pathway),
     surgical_consultant |-> Absent,
     sheets |-> Absent,
     week_start_date_cell |-> Absent,
     heading_row |-> Num(heading_row),
     unknown |-> {},
     columns |-> columns]

NoContents == Contents("", 1, <<>>)

\* the settings read_config knows, and the type it expects of each
Settings ==
    {"surgical_pathway", "surgical_consultant", "sheets", "week_start_date_cell",
     "heading_row"}

SettingType(setting) ==
    CASE setting \in {"surgical_pathway", "surgical_consultant", "week_start_date_cell"} -> "str"
      [] setting = "sheets" -> "list"
      [] setting = "heading_row" -> "int"

\* isinstance(value, typ) for typ in str, list, int; bool is a subclass of int
isinstance(value, typ) ==
    CASE typ = "str" -> value.t = "str"
      [] typ = "list" -> value.t = "list"
      [] typ = "int" -> value.t \in {"int", "bool"}

\* `setting in contents`
Present(file, setting) == file[setting].t # "absent"

\* the settings for which read_config raises ValueError
WrongType(file) ==
    {setting \in Settings :
        Present(file, setting) /\ ~isinstance(file[setting], SettingType(setting))}

\* the config dictionary read_config builds when it raises nothing: the
\* fixed settings, and one FieldParser per column under its stripped heading
Loaded(file) ==
    [exc |-> "none",
     fixed |-> [EmptyRecord EXCEPT
                  !["surgical_pathway"] = file.surgical_pathway,
                  !["surgical_consultant"] = file.surgical_consultant],
     sheets |-> IF Present(file, "sheets")
                THEN {file.sheets.s[i] : i \in DOMAIN file.sheets.s}
                ELSE {},
     week_start_date_cell |-> file.week_start_date_cell,
     heading_row |-> IF Present(file, "heading_row") THEN file.heading_row.n ELSE 1,
     columns |-> {[name |-> Strip(file.columns[i].excel_heading),
                   parser |-> FieldParser(file.columns[i].column_name,
                                          file.columns[i].extra_column,
                                          file.columns[i].data_insert_method,
                                          file.columns[i].propagate_missing_values,
                                          file.columns[i].check_next_first,
                                          file.columns[i].cancellation_mark,
                                          file.columns[i].cancellation_colours,
                                          file.columns[i].extra_date_formats,
                                          file.columns[i].day_offsets)] :
                     i \in DOMAIN file.columns}]

\* read_config: ValueError for a known setting of the wrong type, else the
\* config dictionary; a top-level key it does not know is never looked at
read_config(file) ==
    IF WrongType(file) # {}
    THEN [Loaded(NoContents) EXCEPT !.exc = "ValueError"]
    ELSE Loaded(file)

\* cell_text in config['columns'], for the text of a heading cell
Recognised(cfg, cell) ==
    \E col \in cfg.columns : col.name = Strip(PyStr(cell.value).s)

\* sheet.row(header_row_number - 1) raises: xlrd indexes its list of rows
\* and raises IndexError past the last row (the heading row of an empty
\* sheet); openpyxl makes up a row of empty cells
HeaderRaises(f, cfg, cells) == f = "xls" /\ cfg.heading_row > Len(cells)

\* col_map: the column indexes (1-based here) whose heading is configured;
\* the made-up row of openpyxl has no text but 'None', which is no heading
\* of the configuration files considered
ColMapped(cfg, cells) ==
    IF cfg.heading_row \in 1..Len(cells)
    THEN {c \in 1..Len(cells[cfg.heading_row]) :
             Recognised(cfg, cells[cfg.heading_row][c])}
    ELSE {}

\* col_map[col_idx]
ColParser(cfg, cells, c) ==
    (CHOOSE col \in cfg.columns :
        col.name = Strip(PyStr(cells[cfg.heading_row][c].value).s)).parser

ColumnLetters == <<"A", "B", "C", "D", "E", "F", "G", "H">>

\* openpyxl.utils.coordinate_to_tuple, for the one-letter columns: "E1" is
\* row 1, column 5
coordinate_to_tuple(name) ==
    <<ToInt(SubSeq(name, 2, Len(name))),
      CHOOSE c \in DOMAIN ColumnLetters : ColumnLetters[c] = name[1]>>

\* the width xlrd pads every row of a sheet to
Width(cells) ==
    IF cells = <<>> THEN 0
    ELSE CHOOSE w \in {Len(cells[r]) : r \in DOMAIN cells} :
             \A r \in DOMAIN cells : Len(cells[r]) <= w

\* Sheet.cell(name=...).value: xlrd raises IndexError outside the sheet and
\* has '' where a row is padded; openpyxl makes the cell, which is empty
SheetCellValue(f, cells, r, c) ==
    IF InSheet(cells, r, c) THEN [exc |-> "none", value |-> cells[r][c].value]
    ELSE IF f = "xlsx" THEN [exc |-> "none", value |-> None]
    ELSE IF r <= Len(cells) /\ c <= Width(cells) THEN [exc |-> "none", value |-> Str(<<>>)]
    ELSE [exc |-> "IndexError", value |-> None]

\* lines 251-254 of ingest_sheet: the start date read from the week-start
\* cell; set is whether a date was read; parse_date takes nothing but text
WeekStartRead(f, cfg, cells) ==
    IF cfg.week_start_date_cell.t = "absent"
    THEN [exc |-> "none", set |-> FALSE, date |-> None]
    ELSE LET at == coordinate_to_tuple(cfg.week_start_date_cell.s)
             got == SheetCellValue(f, cells, at[1], at[2])
         IN  IF got.exc # "none" THEN [exc |-> got.exc, set |-> FALSE, date |-> None]
             ELSE IF ~Truthy(got.value) THEN [exc |-> "none", set |-> FALSE, date |-> None]
             ELSE IF ~IsStr(got.value) THEN [exc |-> "TypeError", set |-> FALSE, date |-> None]
             ELSE IF ~parse_date_default(got.value.s).ok
             THEN [exc |-> "ValueError", set |-> FALSE, date |-> None]
             ELSE [exc |-> "none", set |-> TRUE,
                   date |-> parse_date_default(got.value.s).value]

\* lines 255-257 of ingest_sheet: set_date_basis on the parsers of col_map
\* that have day offsets; the parsers are those of the config dictionary,
\* so they keep the basis after the sheet
BasisSet(cfg, cells, start) ==
    IF ~start.set THEN cfg
    ELSE [cfg EXCEPT !.columns =
             {IF /\ \E c \in ColMapped(cfg, cells) :
                       col.name = Strip(PyStr(cells[cfg.heading_row][c].value).s)
                 /\ col.parser.day_offsets # {}
              THEN [name |-> col.name, parser |-> set_date_basis(col.parser, start.date)]
              ELSE col : col \in @}]

\* procedure_record before the cells are parsed: the fixed settings
FixedRecord(cfg) == cfg.fixed

\* lines 265-271 of ingest_sheet: the mapped cells of row r parsed in
\* column order into rec, from column c on; stops at the first exception
RECURSIVE ParsedRow(_, _, _, _, _, _, _)
RECURSIVE ParsedCell(_, _, _, _, _, _, _)
ParsedRow(cfg, f, cells, r, c, rec, last) ==
    IF c > Len(cells[cfg.heading_row]) THEN [rec |-> rec, exc |-> "none"]
    ELSE IF c \notin ColMapped(cfg, cells) \/ c > Len(cells[r])
    THEN ParsedRow(cfg, f, cells, r, c + 1, rec, last)
    ELSE ParsedCell(cfg, f, cells, r, c, last,
                    parse_cell(ColParser(cfg, cells, c), f, cells, r, c, rec, Previous(last)))

\* the rest of the row after one cell
ParsedCell(cfg, f, cells, r, c, last, res) ==
    IF res.exc # "none" THEN [rec |-> res.rec, exc |-> res.exc]
    ELSE ParsedRow(cfg, f, cells, r, c + 1, res.rec, last)

\* last_record advancing only past the rows that were stored
LastRecordOfStored(last, row, done) ==
    IF done.kind \in {"created", "updated"} THEN row.rec ELSE last

\* line 288 of ingest_sheet: last_record = procedure_record, whatever
\* became of the row
NextLastRecord(last, row, done) == row.rec

\* the committed rows
Store == [patients |-> patients, procedures |-> procedures]

\* the sheet being ingested
TheSheet == book[sheet_no]

\* what ends a run of ingest_file: the rows it leaves are remembered for
\* the first run
Finish(state, store) ==
    /\ pc' = state
    /\ first_pass' = IF pass' = 1 THEN store ELSE first_pass

\* after a sheet: the next one, or the end of ingest_file
NextSheet(store) ==
    /\ sheet_no' = sheet_no + 1
    /\ IF sheet_no < Len(book)
       THEN pc' = "sheet" /\ UNCHANGED first_pass
       ELSE Finish("done", store)

\* ingest_file up to its loop over the sheets: read_config, which may
\* raise, and then Workbook(file_path)
IngestFile ==
    /\ mode = "ingest"
    /\ pc \in {"idle", "done"}
    /\ pass < MaxPasses
    /\ pass' = pass + 1
    /\ config' = read_config(contents)
    /\ sheet_no' = 1
    /\ row_no' = 0
    /\ last_record' = EmptyRecord
    /\ session' = "none"
    /\ UNCHANGED <<mode, fmt, contents, book, db_typed, patients, procedures>>
    /\ IF config'.exc # "none"
       THEN /\ opened' = FALSE
            /\ last_event' = [kind |-> "config_error", id |-> 0]
            /\ Finish("aborted", Store)
       ELSE /\ opened' = TRUE
            /\ last_event' = [kind |-> "none", id |-> 0]
            /\ IF Len(book) = 0 THEN Finish("done", Store)
               ELSE pc' = "sheet" /\ UNCHANGED first_pass
    /\ UNCHANGED parseVars

\* one turn of ingest_file's loop: the sheet filter, the entry of the
\* session scope, and ingest_sheet up to its loop over the rows; a sheet
\* without a recognised column leaves ingest_sheet, and the scope, at once
BeginSheet ==
    /\ mode = "ingest"
    /\ pc = "sheet"
    /\ UNCHANGED <<mode, fmt, contents, book, pass, db_typed, opened>>
    /\ last_record' = EmptyRecord
    /\ IF config.sheets = {} \/ Strip(TheSheet.title) \in config.sheets
       THEN IF HeaderRaises(fmt, config, TheSheet.cells)
            THEN \E exit \in {session_scope(Store, Store, "IndexError")} :
                     /\ row_no' = 0
                     /\ UNCHANGED config
                     /\ session' = exit.session
                     /\ last_event' = [kind |-> "raised", id |-> 0]
                     /\ patients' = exit.store.patients
                     /\ procedures' = exit.store.procedures
                     /\ IF exit.exc # "none"
                        THEN UNCHANGED sheet_no /\ Finish("aborted", exit.store)
                        ELSE NextSheet(exit.store)
            ELSE IF ColMapped(config, TheSheet.cells) # {}
            THEN \E start \in {WeekStartRead(fmt, config, TheSheet.cells)} :
                 \E exit \in {session_scope(Store, Store, start.exc)} :
                     /\ config' = BasisSet(config, TheSheet.cells, start)
                     /\ patients' = exit.store.patients
                     /\ procedures' = exit.store.procedures
                     /\ IF start.exc = "none"
                        THEN /\ pc' = "rows"
                             /\ row_no' = config.heading_row + 1
                             /\ session' = "open"
                             /\ last_event' = [kind |-> "none", id |-> 0]
                             /\ UNCHANGED <<sheet_no, first_pass>>
                        ELSE /\ row_no' = 0
                             /\ session' = exit.session
                             /\ last_event' = [kind |-> "raised", id |-> 0]
                             /\ IF exit.exc # "none"
                                THEN UNCHANGED sheet_no /\ Finish("aborted", exit.store)
                                ELSE NextSheet(exit.store)
            ELSE \E exit \in {session_scope(Store, Store, "none")} :
                     /\ row_no' = 0
                     /\ UNCHANGED config
                     /\ session' = exit.session
                     /\ last_event' = [kind |-> "no_columns", id |-> 0]
                     /\ patients' = exit.store.patients
                     /\ procedures' = exit.store.procedures
                     /\ NextSheet(exit.store)
       ELSE /\ row_no' = 0
            /\ last_event' = [kind |-> "filtered", id |-> 0]
            /\ UNCHANGED <<config, session, patients, procedures>>
            /\ NextSheet(Store)
    /\ UNCHANGED parseVars

\* one turn of ingest_sheet's loop over the rows; an exception leaves
\* ingest_sheet, the session scope and ingest_file
IngestRow ==
    /\ mode = "ingest"
    /\ pc = "rows"
    /\ row_no <= Len(TheSheet.cells)
    /\ UNCHANGED <<mode, fmt, contents, config, book, pass, db_typed, opened>>
    /\ \E row \in {ParsedRow(config, fmt, TheSheet.cells, row_no, 1,
                             FixedRecord(config), last_record)} :
       \E done \in {RowOutcome(row, Store, db_typed)} :
       \E exit \in {session_scope(done.store, done.store, done.exc)} :
           /\ last_event' = [kind |-> done.kind, id |-> done.id]
           /\ last_record' = NextLastRecord(last_record, row, done)
           /\ IF done.exc = "none"
              THEN /\ row_no' = row_no + 1
                   /\ patients' = done.store.patients
                   /\ procedures' = done.store.procedures
                   /\ UNCHANGED <<pc, first_pass, session, sheet_no>>
              ELSE /\ UNCHANGED row_no
                   /\ patients' = exit.store.patients
                   /\ procedures' = exit.store.procedures
                   /\ session' = exit.session
                   /\ IF exit.exc # "none"
                      THEN UNCHANGED sheet_no /\ Finish("aborted", exit.store)
                      ELSE NextSheet(exit.store)
    /\ UNCHANGED parseVars

\* the end of ingest_sheet and of the session scope around it
EndSheet ==
    /\ mode = "ingest"
    /\ pc = "rows"
    /\ row_no > Len(TheSheet.cells)
    /\ UNCHANGED <<mode, fmt, contents, config, book, pass, row_no, last_record,
                   db_typed, opened>>
    /\ last_event' = [kind |-> "none", id |-> 0]
    /\ \E exit \in {session_scope(Store, Store, "none")} :
           /\ session' = exit.session
           /\ patients' = exit.store.patients
           /\ procedures' = exit.store.procedures
           /\ NextSheet(exit.store)
    /\ UNCHANGED parseVars

-----------------------------------------------------------------------------
(* The inputs of the parse_cell specification *)

\* every text of at most n characters over "a", "b" and the space
RECURSIVE Texts(_)
Texts(n) ==
    IF n = 0 THEN {<<>>}
    ELSE Texts(n - 1) \cup
         {Append(s, ch) : s \in {u \in Texts(n - 1) : Len(u) = n - 1},
                          ch \in {"a", "b", " "}}

\* a record that holds only value v under key k (nothing if v is Absent)
Only(k, v) == [EmptyRecord EXCEPT ![k] = v]

\* a one-column sheet: the cell parsed, and the row below it when there is one
Column(cells) == [i \in 1..Len(cells) |-> <<cells[i]>>]

Red == <<"f", "f", "0", "0", "0", "0">>
RedUpper == <<"F", "F", "0", "0", "0", "0">>
Green == <<"0", "0", "f", "f", "0", "0">>
OpaqueRedUpper == <<"F", "F">> \o RedUpper
OpaqueRedLower == <<"f", "f">> \o Red
OpaqueGreen == <<"F", "F">> \o Green

\* the fonts a cell of a workbook of backend f is drawn with: openpyxl
\* colours in an .xlsx file, xlrd colour tuples and fills in an .xls file
Fonts(f) ==
    IF f = "xlsx"
    THEN {[strike |-> st, color |-> col, fill |-> NoFill] :
             st \in BOOLEAN,
             col \in {NoColour, RgbColour(OpaqueRedUpper), RgbColour(OpaqueRedLower),
                      RgbColour(OpaqueGreen), IndexedColour(2),
                      ThemeColour(RedUpper, 0), ThemeColour(Green, -500)}}
    ELSE {[strike |-> st, color |-> col, fill |-> NoFill] :
             st \in BOOLEAN,
             col \in {NoColour, TupleColour(255, 0, 0), TupleColour(0, 255, 0)}}
         \cup
         {[strike |-> FALSE, color |-> NoColour, fill |-> fl] :
             fl \in {[pattern |-> 0, bg |-> TupleColour(255, 0, 0), fg |-> NoColour],
                     [pattern |-> 1, bg |-> NoColour, fg |-> TupleColour(255, 0, 0)],
                     [pattern |-> 1, bg |-> TupleColour(255, 0, 0),
                      fg |-> TupleColour(0, 255, 0)],
                     [pattern |-> 2, bg |-> TupleColour(255, 0, 0),
                      fg |-> TupleColour(255, 0, 0)]}}

\* text columns: split over two columns or not, appended or replaced
TextParsers ==
    {FieldParser("patient_given_name", extra, method, FALSE, FALSE, "", {}, <<>>, {}) :
        extra \in {"", "patient_family_name"}, method \in {"replace", "append"}}

TextInputs ==
    [parser : TextParsers,
     sheet : {Column(<<MkCell(v, PlainFont)>>) :
                 v \in {Str(s) : s \in Texts(MaxLen)} \cup {None, Num(7)}},
     given : {Only("patient_given_name", v) :
                 v \in {Absent, None, Str(<<>>), Str(<<"a">>), Str(<<"b", " ", "a">>)}},
     previous : {Previous(EmptyRecord)}]

\* propagating columns, with and without the look at the next row
PropagatingParsers ==
    {FieldParser("surgical_procedure", "", method, TRUE, next, mark, {}, <<>>, {}) :
        method \in {"replace", "append"}, next \in BOOLEAN, mark \in {"", "strike"}}

PropagationInputs ==
    [parser : PropagatingParsers,
     sheet : {Column(<<MkCell(v, PlainFont)>> \o below) :
                 v \in {None, Str(<<>>), Str(<<" ">>), Str(<<"a">>)},
                 below \in {<<>>} \cup
                     {<<MkCell(w, [PlainFont EXCEPT !.strike = st])>> :
                         w \in {None, Str(<<>>), Str(<<"b">>)}, st \in BOOLEAN}},
     given : {Only("surgical_procedure", v) : v \in {Absent, Str(<<"b">>)}},
     previous : {Previous(EmptyRecord)} \cup
                {Previous(Only("surgical_procedure", v)) :
                    v \in {None, Str(<<>>), Str(<<"a", "b">>)}} \cup
                {Previous(Only("idmrn", Str(<<"a">>)))}]

\* columns whose formatting marks a cancelled procedure
CancellationParsers ==
    {FieldParser("surgical_procedure", "", "replace", FALSE, FALSE, mark, colours, <<>>, {}) :
        mark \in {"strike", "red", "background", "foreground"},
        colours \in {{}, {Red}, {RedUpper}, {Green, RedUpper}}}

CancellationInputs(f) ==
    [parser : CancellationParsers,
     sheet : {Column(<<MkCell(v, font)>>) : v \in {None, Str(<<"a">>)}, font \in Fonts(f)},
     given : {EmptyRecord, Only("cancelled", True)},
     previous : {Previous(EmptyRecord)}]

January5 == <<"2", "0", "2", "4", "-", "0", "1", "-", "0", "5">>

\* strftime formats: %d/%m/%Y and %Y.%m.%d
DayMonthYear == [order |-> <<"d", "m", "Y">>, sep |-> "/"]
YearMonthDay == [order |-> <<"Y", "m", "d">>, sep |-> "."]

\* dates given as text: 5/1/2024, 2024-01-05, 2024.13.05 (not a date of
\* %Y.%m.%d, but one the day-first parser accepts), and texts nothing
\* parses: 31/31/2024, "ab", " "
DateTexts ==
    {<<"5", "/", "1", "/", "2", "0", "2", "4">>,
     January5,
     <<"2", "0", "2", "4", ".", "1", "3", ".", "0", "5">>,
     <<"3", "1", "/", "3", "1", "/", "2", "0", "2", "4">>,
     <<"a", "b">>,
     <<" ">>}

\* date columns, with and without extra formats and propagation
DateParsers ==
    {FieldParser("surgical_date", "", "replace", prop, FALSE, "", {}, formats, {}) :
        prop \in BOOLEAN,
        formats \in {<<>>, <<DayMonthYear>>, <<YearMonthDay, DayMonthYear>>}}

DateInputs ==
    [parser : DateParsers,
     sheet : {Column(<<MkCell(v, PlainFont)>>) :
                 v \in {Str(s) : s \in DateTexts} \cup {None, Str(<<>>), DateTime(2024, 1, 5)}},
     given : {EmptyRecord, Only("surgical_date", Date(2024, 1, 1)),
              Only("idmrn", Str(<<"a">>))},
     previous : {Previous(EmptyRecord),
                 Previous(Only("surgical_date", Date(2023, 12, 31)))}]

\* a column that is blank in every row, three rows deep
BlankColumnInputs ==
    {[parser |-> p, sheet |-> Column(<<MkCell(u, PlainFont), MkCell(v, PlainFont),
                                       MkCell(w, PlainFont)>>),
      given |-> Only("surgical_procedure", Absent), previous |-> prev] :
        p \in {q \in PropagatingParsers : q.check_next_first},
        u \in {None, Str(<<>>)}, v \in {None, Str(<<>>)}, w \in {None, Str(<<>>)},
        prev \in {Previous(EmptyRecord), Previous(Only("surgical_procedure", Str(<<"a", "b">>)))}}

Mon == <<"M", "o", "n">>
Wed == <<"W", "e", "d">>
Fri == <<"F", "r", "i">>

\* the day a week starts on in the sheets considered: two days before the
\* end of a February of 29 days
WeekStart == Date(2024, 2, 28)

\* the working days of a theatre list as offsets from the week's start
WeekDays == {DayOffset(Mon, 0), DayOffset(Wed, 2)}

\* a date column filled from day names, before and after set_date_basis
DayParsers ==
    {FieldParser("surgical_date", "", "replace", prop, FALSE, "", {}, <<>>, WeekDays) :
        prop \in BOOLEAN}
    \cup {set_date_basis(FieldParser("surgical_date", "", "replace", prop, FALSE, "", {},
                                     <<>>, WeekDays), WeekStart) : prop \in BOOLEAN}

\* cells of such a column: a day of the mapping, other texts, nothing, a
\* number, a date.  The day names go to the parsers whose basis is set: on
\* the others they would reach parse_date, which reads a day name as a day
\* of the week the program runs in
DayInputs ==
    {in \in
        {[parser |-> p, sheet |-> Column(<<MkCell(v, PlainFont)>>), given |-> EmptyRecord,
          previous |-> prev] :
            p \in DayParsers,
            v \in {Str(Mon), Str(Wed), Str(Fri), Str(January5), Str(<<" ">>), Str(<<>>), None,
                   Num(3), DateTime(2024, 1, 5)},
            prev \in {Previous(EmptyRecord),
                      Previous(Only("surgical_date", Date(2023, 12, 31)))}} :
        in.parser.value_transformers = {} =>
            in.sheet[1][1].value \notin {Str(Mon), Str(Wed), Str(Fri)}}

ParseInputs(f) ==
    TextInputs \cup PropagationInputs \cup CancellationInputs(f) \cup DateInputs \cup DayInputs \cup BlankColumnInputs

\* the ingestion variables while only parse_cell is exercised
IngestIdle ==
    /\ contents = NoContents
    /\ config = read_config(NoContents)
    /\ book = <<>>
    /\ db_typed = FALSE
    /\ pass = 0
    /\ pc = "idle"
    /\ sheet_no = 0
    /\ row_no = 0
    /\ last_record = EmptyRecord
    /\ patients = {}
    /\ procedures = <<>>
    /\ first_pass = [patients |-> {}, procedures |-> <<>>]
    /\ last_event = [kind |-> "none", id |-> 0]
    /\ opened = FALSE
    /\ session = "none"

InitParse ==
    /\ mode = "parse"
    /\ fmt \in {"xls", "xlsx"}
    /\ \E in \in ParseInputs(fmt) :
          /\ parser = in.parser
          /\ sheet = in.sheet
          /\ given = in.given
          /\ record = in.given
          /\ previous = in.previous
    /\ pos = <<1, 1>>
    /\ outcome = "pending"
    /\ calls = 0
    /\ IngestIdle

\* one call of FieldParser.parse_cell
DoParseCell ==
    /\ mode = "parse"
    /\ outcome = "pending"
    /\ LET res == parse_cell(parser, fmt, sheet, pos[1], pos[2], record, previous)
       IN  /\ record' = res.rec
           /\ outcome' = IF res.exc = "none" THEN "ok" ELSE res.exc
           /\ calls' = res.calls
    /\ UNCHANGED <<mode, fmt, parser, sheet, pos, given, previous>>
    /\ UNCHANGED ingestVars

NextParse == DoParseCell

SpecParse == InitParse /\ [][NextParse]_vars

-----------------------------------------------------------------------------
(* The inputs of the ingestion specification *)

Alice == <<"A", "l", "i", "c", "e">>
Knee == <<"K", "n", "e", "e">>
KneeRevision == Knee \o <<" ", "r", "e", "v", "i", "s", "i", "o", "n">>
Ortho == <<"o", "r", "t", "h", "o">>
Mrn001 == <<"0", "0", "1">>
Mrn002 == <<"0", "0", "2">>

HeadName == <<"N", "a", "m", "e">>
HeadMrn == <<"M", "R", "N">>
HeadDate == <<"D", "a", "t", "e">>
HeadOp == <<"O", "p">>
HeadNotes == <<"N", "o", "t", "e", "s">>
HeadSex == <<"S", "e", "x">>

\* the four columns of a theatre list, with the fixed pathway: the name
\* column holds "given family" and is split over both name columns
ListColumns ==
    <<ColumnDef(HeadName, "patient_family_name", "patient_given_name"),
      ColumnDef(HeadMrn, "idmrn", ""),
      ColumnDef(HeadDate, "surgical_date", ""),
      ColumnDef(HeadOp, "surgical_procedure", "")>>

ListContents == Contents(Ortho, 1, ListColumns)

\* the same with a notes column and a column for the patient's sex
FullContents ==
    Contents(Ortho, 1,
             ListColumns \o <<ColumnDef(HeadNotes, "surgical_notes", ""),
                              ColumnDef(HeadSex, "sex", "")>>)

Plain(v) == MkCell(v, PlainFont)

\* the heading row of a sheet laid out for a configuration file
Headings(file) == [i \in DOMAIN file.columns |-> Plain(Str(file.columns[i].excel_heading))]

ListRow(name, mrn, date, op) == <<Plain(name), Plain(mrn), Plain(date), Plain(op)>>

\* well-formed rows of the four-column list, and rows with one defect: no
\* name, or a number where the date should be
ListRows ==
    {ListRow(Str(Alice), Str(mrn), Str(January5), Str(op)) :
        mrn \in {Mrn001, Mrn002}, op \in {Knee, KneeRevision}}
    \cup {ListRow(None, Str(Mrn001), Str(January5), Str(Knee)),
          ListRow(Str(Alice), Str(Mrn001), Num(42), Str(Knee))}

FullRow(name, mrn, date, op, notes, sex) ==
    ListRow(name, mrn, date, op) \o <<Plain(notes), Plain(sex)>>

\* rows of the six-column list: well-formed ones, and rows with one defect:
\* no name, a name of one space, a number for the date, a letter for the sex
FullRows ==
    {FullRow(Str(Alice), Str(mrn), Str(January5), Str(op), notes, None) :
        mrn \in {Mrn001, Mrn002}, op \in {Knee, KneeRevision},
        notes \in {None, Str(<<"x">>)}}
    \cup {FullRow(None, Str(Mrn001), Str(January5), Str(Knee), Str(<<"x">>), None),
          FullRow(Str(<<" ">>), Str(Mrn001), Str(January5), Str(Knee), None, None),
          FullRow(Str(Alice), Str(Mrn001), Num(42), Str(Knee), None, None),
          FullRow(Str(Alice), Str(Mrn001), Str(January5), Str(Knee), Str(<<"x">>),
                  Str(<<"M">>))}

\* every sequence of at most n rows out of a set
RECURSIVE RowsUpTo(_, _)
RowsUpTo(rows, n) ==
    IF n = 0 THEN {<<>>}
    ELSE RowsUpTo(rows, n - 1) \cup
         {Append(s, row) : s \in {u \in RowsUpTo(rows, n - 1) : Len(u) = n - 1},
                           row \in rows}

\* a workbook of one sheet, laid out for a configuration file
BookOf(file, rows) ==
    <<[title |-> <<"S", "1">>, cells |-> <<Headings(file)>> \o rows]>>

\* two rows of the four-column list that differ in the patient
RowOf001 == ListRow(Str(Alice), Str(Mrn001), Str(January5), Str(Knee))
RowOf002 == ListRow(Str(Alice), Str(Mrn002), Str(January5), Str(Knee))

TitleS1 == <<"S", "1">>
TitleS2 == <<"S", "2">>

\* a sheet laid out for the four-column list
ListSheet(title, rows) == [title |-> title, cells |-> <<Headings(ListContents)>> \o rows]

\* a sheet none of whose headings is configured
UnrelatedSheet(title) ==
    [title |-> title, cells |-> <<<<Plain(Str(<<"I", "d">>))>>, <<Plain(Str(Mrn001))>>>>]

\* a sheet without any cell (the spare sheets of a new workbook)
EmptySheet(title) == [title |-> title, cells |-> <<>>]

\* workbooks of two sheets, one of them without a configured heading
SparseBooks ==
    {<<UnrelatedSheet(TitleS1), ListSheet(TitleS2, <<RowOf002>>)>>,
     <<EmptySheet(TitleS1), ListSheet(TitleS2, <<RowOf002>>)>>,
     <<ListSheet(TitleS1, <<RowOf001>>), UnrelatedSheet(TitleS2)>>,
     <<ListSheet(TitleS1, <<RowOf001>>), EmptySheet(TitleS2)>>}

\* a title that ends in a space
TitleS1Space == TitleS1 \o <<" ">>

\* the `sheets` setting: left out, empty, or a list of titles
SheetLists ==
    {Absent, List(<<>>), List(<<TitleS1>>), List(<<TitleS1Space>>), List(<<TitleS2, TitleS1>>)}

\* workbooks of two lists, with a different patient on each sheet
TwoListBooks ==
    {<<ListSheet(title, <<RowOf001>>), ListSheet(TitleS2, <<RowOf002>>)>> :
        title \in {TitleS1, TitleS1Space}}

FilterInputs ==
    {[contents |-> [ListContents EXCEPT !.sheets = list], book |-> b] :
        list \in SheetLists, b \in TwoListBooks}

HeadDay == <<"D", "a", "y">>
CellE1 == <<"E", "1">>
February28 == <<"2", "0", "2", "4", "-", "0", "2", "-", "2", "8">>
March6 == <<"2", "0", "2", "4", "-", "0", "3", "-", "0", "6">>

\* a week's theatre list: the day of the operation is a day name, and the
\* date the week starts on is in cell E1, right of the headings
WeekContents ==
    [Contents(Ortho, 1,
              <<ColumnDef(HeadName, "patient_family_name", "patient_given_name"),
                ColumnDef(HeadMrn, "idmrn", ""),
                [ColumnDef(HeadDay, "surgical_date", "") EXCEPT !.day_offsets = WeekDays],
                ColumnDef(HeadOp, "surgical_procedure", "")>>)
     EXCEPT !.week_start_date_cell = Str(CellE1)]

\* a sheet of such a list, with what cell E1 holds
WeekSheet(title, start, rows) ==
    [title |-> title, cells |-> <<Headings(WeekContents) \o <<Plain(start)>>>> \o rows]

\* the same without a cell E1
WeekSheetWithoutStart(title, rows) ==
    [title |-> title, cells |-> <<Headings(WeekContents)>> \o rows]

WeekRow(mrn, day) == ListRow(Str(Alice), Str(mrn), Str(day), Str(Knee))

\* workbooks of one week whose start is a date as text, a date cell or a
\* text that is no date, and workbooks of two weeks the second of which has
\* its start as text, as a date cell, left empty or left out
WeekBooks ==
    {<<WeekSheet(TitleS1, start, <<WeekRow(Mrn001, Mon)>>)>> :
        start \in {Str(February28), DateTime(2024, 2, 28), Str(<<"a", "b">>)}}
    \cup
    {<<WeekSheet(TitleS1, Str(February28), <<WeekRow(Mrn001, Mon)>>),
       WeekSheet(TitleS2, start, <<WeekRow(Mrn002, day)>>)>> :
        start \in {Str(March6), DateTime(2024, 3, 6), None, Str(<<>>)}, day \in {Mon, Wed}}
    \cup
    {<<WeekSheet(TitleS1, Str(February28), <<WeekRow(Mrn001, Mon)>>),
       WeekSheetWithoutStart(TitleS2, <<WeekRow(Mrn002, Wed)>>)>>}

WeekInputs == {[contents |-> WeekContents, book |-> b] : b \in WeekBooks}

\* longest list, in rows, of the lists with a date column that is filled
\* downwards
MaxRun == 3

January6 == <<"2", "0", "2", "4", "-", "0", "1", "-", "0", "6">>

\* the six-column list with a date that is given once for a run of rows
RunContents(check_next_first) ==
    Contents(Ortho, 1,
             <<ColumnDef(HeadName, "patient_family_name", "patient_given_name"),
               ColumnDef(HeadMrn, "idmrn", ""),
               [ColumnDef(HeadDate, "surgical_date", "")
                   EXCEPT !.propagate_missing_values = TRUE,
                          !.check_next_first = check_next_first],
               ColumnDef(HeadOp, "surgical_procedure", ""),
               ColumnDef(HeadNotes, "surgical_notes", ""),
               ColumnDef(HeadSex, "sex", "")>>)

\* rows under the first: without a date and complete, without a date and
\* without a name (dropped), without a date and with a letter for the sex
\* (rolled back where the database checks types), and rows with another date,
\* complete or without a name
RunRows ==
    {FullRow(Str(Alice), Str(Mrn002), None, Str(Knee), None, None),
     FullRow(Str(Alice), Str(Mrn002), Str(<<>>), Str(KneeRevision), None, None),
     FullRow(None, Str(Mrn002), None, Str(Knee), None, None),
     FullRow(Str(Alice), Str(Mrn002), None, Str(Knee), None, Str(<<"M">>)),
     FullRow(Str(Alice), Str(Mrn002), Str(January6), Str(Knee), None, None),
     FullRow(None, Str(Mrn002), Str(January6), Str(Knee), None, None)}

\* a first row with a date, and up to MaxRun - 1 rows under it
RunInputs ==
    {[contents |-> RunContents(next),
      book |-> BookOf(RunContents(next),
                      <<FullRow(Str(Alice), Str(Mrn001), Str(January5), Str(Knee), None, None)>>
                      \o rows)] :
        next \in BOOLEAN, rows \in RowsUpTo(RunRows, MaxRun - 1)}

\* a workbook none of whose headings is configured
UnrelatedBook ==
    <<[title |-> <<"S", "1">>, cells |-> <<<<Plain(Str(<<"I", "d">>))>>, <<Plain(Str(Mrn001))>>>>]>>

\* configuration files with a top-level key read_config does not know (a
\* misspelt heading_row), or with a setting of another type than expected
SettingsContents ==
    {[ListContents EXCEPT !.unknown = {"heading_rows"}],
     [ListContents EXCEPT !.surgical_pathway = Num(3)],
     [ListContents EXCEPT !.surgical_consultant = None],
     [ListContents EXCEPT !.sheets = Str(<<"S", "1">>)],
     [ListContents EXCEPT !.week_start_date_cell = Num(1)],
     [ListContents EXCEPT !.heading_row = Str(<<"1">>)],
     [ListContents EXCEPT !.heading_row = True]}

\* each of them with a well-formed list of one row
SettingsInputs ==
    {[contents |-> file,
      book |-> BookOf(ListContents,
                      <<ListRow(Str(Alice), Str(Mrn001), Str(January5), Str(Knee))>>)] :
        file \in SettingsContents}

\* the four-column list whose procedure is struck through when cancelled
CancelContents ==
    Contents(Ortho, 1,
             <<ColumnDef(HeadName, "patient_family_name", "patient_given_name"),
               ColumnDef(HeadMrn, "idmrn", ""),
               ColumnDef(HeadDate, "surgical_date", ""),
               [ColumnDef(HeadOp, "surgical_procedure", "")
                   EXCEPT !.cancellation_mark = "strike"]>>)

\* a row of that list, with the procedure struck through or not
CancelRow(op, struck) ==
    <<Plain(Str(Alice)), Plain(Str(Mrn001)), Plain(Str(January5)),
      MkCell(Str(op), [PlainFont EXCEPT !.strike = struck])>>

\* the same procedure struck through and not, and another one struck through
CancelRows == {CancelRow(Knee, TRUE), CancelRow(Knee, FALSE), CancelRow(KneeRevision, TRUE)}

CancelInputs ==
    {[contents |-> CancelContents, book |-> BookOf(CancelContents, rows)] :
        rows \in RowsUpTo(CancelRows, MaxRows)}

\* the four-column list whose last column, the procedure, is given once
\* for a run of rows
ShortContents ==
    Contents(Ortho, 1,
             <<ColumnDef(HeadName, "patient_family_name", "patient_given_name"),
               ColumnDef(HeadMrn, "idmrn", ""),
               ColumnDef(HeadDate, "surgical_date", ""),
               [ColumnDef(HeadOp, "surgical_procedure", "")
                   EXCEPT !.propagate_missing_values = TRUE]>>)

\* rows under the first: one that ends before the procedure column, one
\* with a blank procedure cell, and one with another procedure
ShortRows ==
    {<<Plain(Str(Alice)), Plain(Str(Mrn001)), Plain(Str(January6))>>,
     ListRow(Str(Alice), Str(Mrn001), Str(January6), None),
     ListRow(Str(Alice), Str(Mrn001), Str(January6), Str(KneeRevision))}

\* a first row with a procedure, and up to MaxRun - 1 rows under it
ShortInputs ==
    {[contents |-> ShortContents,
      book |-> BookOf(ShortContents,
                      <<ListRow(Str(Alice), Str(Mrn001), Str(January5), Str(Knee))>> \o rows)] :
        rows \in RowsUpTo(ShortRows, MaxRun - 1)}

\* rows of the six-column list for one patient: without a sex, the same
\* procedure with a sex, and another procedure with another sex
PatientRows ==
    {FullRow(Str(Alice), Str(Mrn001), Str(January5), Str(Knee), None, None),
     FullRow(Str(Alice), Str(Mrn001), Str(January5), Str(Knee), None, Num(1)),
     FullRow(Str(Alice), Str(Mrn001), Str(January5), Str(KneeRevision), None, Num(2))}

PatientInputs ==
    {[contents |-> FullContents, book |-> BookOf(FullContents, rows)] :
        rows \in RowsUpTo(PatientRows, MaxRows)}

IngestInputs ==
    SettingsInputs
    \cup
    PatientInputs
    \cup
    ShortInputs
    \cup
    CancelInputs
    \cup
    RunInputs
    \cup
    WeekInputs
    \cup
    FilterInputs
    \cup
    {[contents |-> ListContents, book |-> b] : b \in SparseBooks}
    \cup
    {[contents |-> ListContents, book |-> BookOf(ListContents, rows)] :
        rows \in RowsUpTo(ListRows, MaxRows)}
    \cup
    {[contents |-> FullContents, book |-> BookOf(FullContents, rows)] :
        rows \in RowsUpTo(FullRows, MaxRows)}
    \cup
    {[contents |-> ListContents, book |-> UnrelatedBook]}

\* the parse_cell variables while files are ingested
ParseIdle ==
    /\ parser = PlainParser("idmrn")
    /\ sheet = <<>>
    /\ pos = <<0, 0>>
    /\ given = EmptyRecord
    /\ record = EmptyRecord
    /\ previous = NoPrevious
    /\ outcome = "idle"
    /\ calls = 0

\* an empty store, and a file and its configuration about to be ingested
Init ==
    /\ mode = "ingest"
    /\ fmt \in {"xls", "xlsx"}
    /\ db_typed \in BOOLEAN
    /\ \E in \in IngestInputs :
          /\ contents = in.contents
          /\ book = in.book
    /\ config = read_config(NoContents)
    /\ pass = 0
    /\ pc = "idle"
    /\ sheet_no = 0
    /\ row_no = 0
    /\ last_record = EmptyRecord
    /\ patients = {}
    /\ procedures = <<>>
    /\ first_pass = [patients |-> {}, procedures |-> <<>>]
    /\ last_event = [kind |-> "none", id |-> 0]
    /\ opened = FALSE
    /\ session = "none"
    /\ ParseIdle

Next ==
    \/ IngestFile
    \/ BeginSheet
    \/ IngestRow
    \/ EndSheet

Spec == Init /\ [][Next]_vars

-----------------------------------------------------------------------------
(* Properties of ingest_file, stated on the behaviours of Spec *)

\* ingest_sheet is about to take the next row of the sheet
AtRow == mode = "ingest" /\ pc = "rows" /\ row_no <= Len(TheSheet.cells)

\* the natural keys of the stored procedures
StoredKeys(procs) == {KeyOf(procs[i]) : i \in DOMAIN procs}

\* the natural key a record is stored under
RecordKey(rec) == KeyOf(procedure_constructor(rec).proc)

\* C1: ingesting the same file a second time leaves exactly the Patient and
\* Procedure rows, with the same field values, that the first run left.
C1_Idempotence ==
    (mode = "ingest" /\ pass >= 2 /\ pc = "done") =>
        /\ patients = first_pass.patients
        /\ procedures = first_pass.procedures

\* C1, on a database that stores a value of the wrong type instead of
\* refusing the row.
C1_IdempotenceUntyped ==
    (mode = "ingest" /\ pass >= 2 /\ pc = "done" /\ ~db_typed) =>
        /\ patients = first_pass.patients
        /\ procedures = first_pass.procedures

\* C2: no two stored Procedure rows ever share a natural key (idmrn,
\* surgical_procedure, surgical_date); a complete row whose key is stored
\* adds no row and leaves the procedures with other keys alone, and a new
\* Procedure row is only ever created for a key that was not stored.
C2_NaturalKeyUnique ==
    [][/\ \A i, j \in DOMAIN procedures' :
            KeyOf(procedures'[i]) = KeyOf(procedures'[j]) => i = j
       /\ (AtRow /\ pc' = "rows" /\ has_required_fields(last_record')
              /\ RecordKey(last_record') \in StoredKeys(procedures)) =>
            /\ Len(procedures') = Len(procedures)
            /\ \A i \in DOMAIN procedures :
                  KeyOf(procedures[i]) # RecordKey(last_record') =>
                      procedures'[i] = procedures[i]
       /\ Len(procedures') > Len(procedures) =>
            /\ AtRow
            /\ Len(procedures') = Len(procedures) + 1
            /\ RecordKey(last_record') \notin StoredKeys(procedures)
            /\ KeyOf(procedures'[Len(procedures')]) = RecordKey(last_record')
            /\ \A i \in DOMAIN procedures : procedures'[i] = procedures[i]]_vars

\* a row has just updated one of two stored procedures
C2_Witness ==
    mode = "ingest" /\ last_event.kind = "updated" /\ Len(procedures) = 2

\* C3: an update sets exactly the fields for which the incoming Procedure
\* holds a non-null value, to that value, and leaves every other field as
\* it was; so no stored Procedure field that is non-null ever becomes null,
\* and no stored Procedure goes away.
C3_UpdateNonNull ==
    [][/\ \A i \in DOMAIN procedures :
            /\ i \in DOMAIN procedures'
            /\ \A name \in ProcedureCols :
                  procedures[i][name] # None => procedures'[i][name] # None
       /\ (AtRow /\ last_event'.kind = "updated") =>
            \A name \in ProcedureCols :
               procedures'[last_event'.id][name] =
                  IF Attr(procedure_constructor(last_record').proc, name) # None
                  THEN Attr(procedure_constructor(last_record').proc, name)
                  ELSE procedures[last_event'.id][name]]_vars

\* a row without notes has just updated a procedure that has notes
C3_Witness ==
    /\ mode = "ingest"
    /\ last_event.kind = "updated"
    /\ Get(last_record, "surgical_notes") = None
    /\ procedures[last_event.id]["surgical_notes"] = Str(<<"x">>)

\* the columns C4 names
C4_Required == {"idmrn", "patient_given_name", "patient_family_name",
                "surgical_procedure", "surgical_date", "surgical_pathway"}

\* C4: a row whose record lacks a required column, or holds an empty value
\* for it, leaves the store as it was.
C4_RequiredFieldGate ==
    [][(AtRow /\ \E name \in C4_Required : Blank(Get(last_record', name))) =>
          /\ patients' = patients
          /\ procedures' = procedures]_vars

\* a row without a name has just been dropped, with a procedure of the same
\* patient in the store
C4_Witness ==
    /\ mode = "ingest"
    /\ last_event.kind = "dropped"
    /\ Get(last_record, "patient_family_name") = None
    /\ Get(last_record, "idmrn") = Str(Mrn001)
    /\ procedures # <<>>

\* the sheet of C5: (Alice, 001, 2024-01-05, Knee) then
\* (Alice, 001, 2024-01-05, Knee revision)
C5_Book ==
    BookOf(ListContents,
           <<ListRow(Str(Alice), Str(Mrn001), Str(January5), Str(Knee)),
             ListRow(Str(Alice), Str(Mrn001), Str(January5), Str(KneeRevision))>>)

\* that sheet has been ingested once into the empty store
C5_Ingested ==
    /\ mode = "ingest"
    /\ contents = ListContents
    /\ book = C5_Book
    /\ pass = 1
    /\ pc = "done"

C5_OnePatient ==
    /\ Cardinality(patients) = 1
    /\ \A p \in patients : p["idmrn"] = Str(Mrn001)

\* C5 as stated: the two rows leave one Patient, id 001, and one Procedure,
\* named "Knee revision" (the second row's name over the first row's), with
\* pathway "ortho".
C5_EndToEnd ==
    C5_Ingested =>
        /\ C5_OnePatient
        /\ Len(procedures) = 1
        /\ procedures[1]["surgical_procedure"] = Str(KneeRevision)
        /\ procedures[1]["surgical_pathway"] = Str(Ortho)

\* C5, amended: the two rows leave one Patient, id 001, and two Procedures
\* of that patient with pathway "ortho": the first row's, still named
\* "Knee", and the second row's, named "Knee revision".
C5_EndToEndAmended ==
    C5_Ingested =>
        /\ C5_OnePatient
        /\ Len(procedures) = 2
        /\ procedures[1]["surgical_procedure"] = Str(Knee)
        /\ procedures[2]["surgical_procedure"] = Str(KneeRevision)
        /\ \A i \in 1..2 :
              /\ procedures[i]["surgical_pathway"] = Str(Ortho)
              /\ procedures[i]["idmrn"] = Str(Mrn001)
              /\ procedures[i]["surgical_date"] # None

\* the two rows of C5 have been ingested and have left two procedures
C5_Witness == C5_Ingested /\ Len(procedures) = 2

\* C6: when the commit of a row fails, the store is what it was before the
\* row and ingest_sheet goes on to the next row; and a complete row whose
\* commit does not fail is in the store after its turn, whatever became of
\* the rows before it.
C6_RowErrorIsolation ==
    [][/\ (AtRow /\ last_event'.kind = "rolled_back") =>
            /\ patients' = patients
            /\ procedures' = procedures
            /\ pc' = "rows"
            /\ row_no' = row_no + 1
       /\ (AtRow /\ pc' = "rows" /\ has_required_fields(last_record')
              /\ last_event'.kind # "rolled_back") =>
            RecordKey(last_record') \in StoredKeys(procedures')]_vars

\* the commit of a row has just failed, with an earlier row in the store
C6_Witness ==
    /\ mode = "ingest"
    /\ last_event.kind = "rolled_back"
    /\ procedures # <<>>
    /\ pc = "rows"

-----------------------------------------------------------------------------
(* Properties of FieldParser.parse_cell, stated on the states of SpecParse *)
(* in which the call has been made.                                        *)

\* the call has been made
Parsed1 == mode = "parse" /\ outcome # "pending"

\* the cell parse_cell was called on, and the cell of the row below it
TheCell == sheet[1][1]
HasNextRow == Len(sheet) >= 2
NextCell == sheet[2][1]

\* the text of s up to and without its trailing whitespace
RECURSIVE WithoutTrailingSpace(_)
WithoutTrailingSpace(s) ==
    IF s # <<>> /\ IsSpace(s[Len(s)])
    THEN WithoutTrailingSpace(SubSeq(s, 1, Len(s) - 1)) ELSE s

\* where the last token of s starts (s ends with a character that is no space)
TokenStart(s) ==
    CHOOSE i \in 1..Len(s) :
        /\ \A k \in i..Len(s) : ~IsSpace(s[k])
        /\ i = 1 \/ IsSpace(s[i - 1])

\* the trailing token of a text, and what stands before the whitespace that
\* separates it from the rest (a single space when nothing does)
TrailingToken(s) ==
    LET body == WithoutTrailingSpace(s)
    IN  SubSeq(body, TokenStart(body), Len(body))

BeforeTrailingToken(s) ==
    LET body == WithoutTrailingSpace(s)
        rest == WithoutTrailingSpace(SubSeq(body, 1, TokenStart(body) - 1))
    IN  IF rest = <<>> THEN <<" ">> ELSE rest

\* C7: for a propagating column and a blank cell in row N, the record takes
\* the value Y of row N+1's cell when check_next_first is set and that cell
\* holds one, and else the previous row's value when that is not null.
C7_Propagation ==
    (/\ Parsed1
     /\ parser.propagate_missing_values
     /\ Blank(TheCell.value))
    => LET col == parser.db_col_name
           nextHolds == parser.check_next_first /\ HasNextRow /\ ~Blank(NextCell.value)
       IN  /\ outcome = "ok"
           /\ nextHolds => record[col] = NextCell.value
           /\ (~nextHolds /\ Get(previous.rec, col) # None)
                 => record[col] = previous.rec[col]

\* C7 on the XML backend only, where cell.row and cell.col are implemented
C7_PropagationXlsx == fmt = "xlsx" => C7_Propagation

C9_ColumnSplit ==
    (/\ Parsed1
     /\ parser.extra_column_name # ""
     /\ IsStr(TheCell.value) /\ TheCell.value.s # <<>>)
    => /\ outcome = "ok"
       /\ record[parser.db_col_name] = Str(TrailingToken(TheCell.value.s))
       /\ record[parser.extra_column_name] = Str(BeforeTrailingToken(TheCell.value.s))
       /\ record[parser.extra_column_name] # Str(<<>>)

\* C9 for the texts that hold a character other than whitespace
C9_ColumnSplitOfTokens ==
    (\E i \in 1..Len(TheCell.value.s) : ~IsSpace(TheCell.value.s[i])) => C9_ColumnSplit

\* C10: with cancellation_mark 'background' or 'foreground', whenever the font
\* attribute can be read, record['cancelled'] is set exactly when the cell's
\* colour equals a configured colour, letter case ignored on both sides.
C10_ColourCancellation ==
    (/\ Parsed1
     /\ outcome = "ok"
     /\ parser.cancellation_mark \in {"background", "foreground"}
     /\ given["cancelled"] = Absent)
    => LET colour == FontAttr(fmt, TheCell, parser.cancellation_mark).val.s
       IN  (record["cancelled"] = True) <=> (Lower(colour) \in parser.cancellation_colours)

\* C10 for the colours the backend hands over in lower case
C10_LowerCaseColours ==
    LET colour == FontAttr(fmt, TheCell, parser.cancellation_mark).val
    IN  (IsStr(colour) /\ Lower(colour.s) = colour.s) => C10_ColourCancellation

\* the cell holds a non-empty text that no extra_date_format of the parser
\* and no reading of the day-first parser makes a date
Unparseable ==
    /\ IsStr(TheCell.value)
    /\ TheCell.value.s # <<>>
    /\ \A i \in DOMAIN parser.extra_date_formats :
          ~strptime(Strip(TheCell.value.s), parser.extra_date_formats[i]).ok
    /\ ~parse_date(TheCell.value.s).ok

-----------------------------------------------------------------------------
(* Properties of read_config and of the session scope, on Spec *)

\* a setting whose value is not of the type the configuration format gives it
C12_Mistyped(setting) ==
    /\ contents[setting].t # "absent"
    /\ contents[setting].t # SettingType(setting)

\* ingest_file has been started on the configuration file
C12_Started == mode = "ingest" /\ pass >= 1

\* C12: when the configuration file has an unknown top-level setting, or a
\* recognised setting whose value has the wrong type, ingest_file ends with
\* the configuration error: no workbook is opened and the store is unchanged
C12_ConfigErrorsFailFast ==
    (/\ C12_Started
     /\ contents.unknown # {} \/ \E setting \in Settings : C12_Mistyped(setting))
    => /\ pc = "aborted"
       /\ last_event.kind = "config_error"
       /\ ~opened
       /\ patients = {} /\ procedures = <<>>

\* the part of C12 that holds: a recognised setting that fails read_config's
\* isinstance test ends ingest_file before the workbook is opened
C12_KnownSettingsChecked ==
    (C12_Started /\ WrongType(contents) # {})
    => /\ pc = "aborted"
       /\ last_event.kind = "config_error"
       /\ ~opened
       /\ patients = {} /\ procedures = <<>>

\* an unknown top-level setting is ignored: the file is ingested
C12_UnknownIgnored ==
    /\ C12_Started /\ contents.unknown # {}
    /\ pc = "done" /\ opened /\ Len(procedures) = 1

\* one step taken inside the body of `with Session.scope()`
C13_Step ==
    session = "open" =>
        /\ pc = "rows"
        \* the body goes on: the session stays open
        /\ pc' = "rows" => session' = "open"
        \* the body raised: rollback, close, and the exception leaves
        \* ingest_file; what the rows before committed is still stored
        /\ last_event'.kind = "raised" =>
              /\ session' = "closed"
              /\ pc' = "aborted"
              /\ patients' = patients
              /\ procedures' = procedures
        \* the body ended normally: commit, close, and on to the next sheet
        /\ (pc' # "rows" /\ last_event'.kind # "raised") =>
              /\ session' = "closed"
              /\ pc' \in {"sheet", "done"}
              /\ patients' = patients
              /\ procedures' = procedures

\* C13: Session.scope commits when its body exits normally, rolls back and
\* re-raises when its body raises, and closes the session in both cases;
\* the rollback at the exit leaves the rows committed inside the body
C13_SessionScope == [][C13_Step]_vars

\* a row raised after an earlier row of the same scope was committed
C13_Witness ==
    /\ mode = "ingest" /\ pass = 1 /\ sheet_no = 1
    /\ pc = "aborted" /\ last_event.kind = "raised"
    /\ session = "closed"
    /\ Len(procedures) >= 1

\* ingest_file is about to enter ingest_sheet for a sheet no heading cell of
\* which is a configured column
C14_NoColumnMatches ==
    /\ mode = "ingest" /\ pc = "sheet"
    /\ config.sheets = {} \/ Strip(TheSheet.title) \in config.sheets
    /\ \A r \in 1..Len(TheSheet.cells) :
          r = config.heading_row =>
              \A c \in 1..Len(TheSheet.cells[r]) : ~Recognised(config, TheSheet.cells[r][c])

\* the sheet is left with the warning, the store as it was and no exception,
\* and ingest_file is at the next sheet or at the end of the workbook
C14_Skipped ==
    /\ last_event'.kind = "no_columns"
    /\ patients' = patients /\ procedures' = procedures
    /\ sheet_no' = sheet_no + 1
    /\ pc' = IF sheet_no < Len(book) THEN "sheet" ELSE "done"

\* C14: a sheet on which no configured column identifier matches is skipped
\* entirely: a warning, no row parsed, no storage change, no exception, and
\* ingest_file goes on to the remaining sheets
C14_NoColumnsSkipped == [][C14_NoColumnMatches => C14_Skipped]_vars

\* the part of C14 that holds: the sheet is skipped when it has a heading row
C14_NoColumnsSkippedWithHeadingRow ==
    [][(C14_NoColumnMatches /\ config.heading_row <= Len(TheSheet.cells)) => C14_Skipped]_vars

\* an empty sheet of an .xls workbook ended ingest_file before the list on
\* the next sheet was read
C14_EmptySheetAborts ==
    /\ mode = "ingest" /\ fmt = "xls" /\ pass = 1
    /\ pc = "aborted" /\ last_event.kind = "raised"
    /\ sheet_no = 1 /\ Len(book) = 2 /\ book[1].cells = <<>>
    /\ procedures = <<>>

\* the filter's verdict on the sheet ingest_file is at, for a way to read
\* a title: the sheet is passed over when the list is non-empty and does not
\* hold the title, and is handed to ingest_sheet otherwise; the sheets are
\* taken in workbook order
C15_Filter(listed) ==
    (mode = "ingest" /\ pc = "sheet") =>
        /\ sheet_no' \in {sheet_no, sheet_no + 1}
        /\ IF config.sheets # {} /\ ~listed
           THEN /\ last_event'.kind = "filtered"
                /\ patients' = patients /\ procedures' = procedures
                /\ sheet_no' = sheet_no + 1
           ELSE last_event'.kind # "filtered"

\* C15: with a non-empty sheets list, exactly the sheets whose title is in
\* the list are ingested and no row of another sheet reaches the store;
\* with an empty or absent list every sheet is ingested, in workbook order
C15_SheetFilter == [][C15_Filter(TheSheet.title \in config.sheets)]_vars

\* what holds: the title is looked up without its surrounding whitespace
C15_SheetFilterOfStrippedTitle == [][C15_Filter(Strip(TheSheet.title) \in config.sheets)]_vars

\* the sheet whose title is in the list, space included, was passed over
C15_ListedSheetPassedOver ==
    /\ mode = "ingest" /\ pass = 1 /\ pc = "sheet" /\ sheet_no = 2
    /\ last_event.kind = "filtered"
    /\ book[1].title = TitleS1Space
    /\ config.sheets = {TitleS1Space}

-----------------------------------------------------------------------------
(* Properties of the day offsets, on SpecParse and on Spec *)

\* parse_cell was called on a non-empty cell of a parser that has a day-offset
\* mapping and whose date basis has been set
C16_Case ==
    /\ Parsed1
    /\ parser.day_offsets # {}
    /\ parser.value_transformers # {}
    /\ TheCell.value \notin {None, Str(<<>>)}

\* the cell's text is a key of the mapping
C16_IsKey == \E o \in parser.day_offsets : TheCell.value = Str(o.key)

\* the cell went through parse_cell as it does on a parser without mapping
C16_PassedOn ==
    /\ outcome = "ok"
    /\ record = parse_cell([parser EXCEPT !.value_transformers = {}], fmt, sheet, 1, 1,
                           given, previous).rec

\* the record holds the basis with the offset of the cell's key added on
C16_Replaced ==
    /\ outcome = "ok"
    /\ \E o \in parser.day_offsets :
          /\ TheCell.value = Str(o.key)
          /\ record[parser.db_col_name] = AddDays(WeekStart, o.offset)

\* C16: with a day-offset mapping and a date basis set, a cell whose text is
\* a key of the mapping is replaced by the basis plus the offset, and a
\* non-empty cell whose text is not a key keeps its value, goes through the
\* later parsing steps unchanged and raises nothing
C16_TransformerLookup ==
    C16_Case => IF C16_IsKey THEN C16_Replaced ELSE C16_PassedOn

\* the part of C16 that holds: a key is replaced by basis + offset
C16_KeyReplaced == (C16_Case /\ C16_IsKey) => C16_Replaced

\* a cell that is not a key raised KeyError
C16_NotAKeyRaises ==
    /\ C16_Case /\ ~C16_IsKey
    /\ TheCell.value = Str(Fri)
    /\ outcome = "KeyError"

\* what the week-start cell of the sheet being ingested holds
C17_OwnCell ==
    IF InSheet(TheSheet.cells, 1, 5) THEN TheSheet.cells[1][5].value ELSE None

\* ingest_sheet is at a row whose day cell is a key of the day offsets
C17_DayRow ==
    /\ AtRow
    /\ contents.week_start_date_cell = Str(CellE1)
    /\ \E o \in WeekDays : TheSheet.cells[row_no][3].value = Str(o.key)

\* the date parsed for the row is the date of the sheet's own week-start
\* cell with the offset of the day added on
C17_OwnBasis ==
    /\ IsStr(C17_OwnCell)
    /\ parse_date_default(C17_OwnCell.s).ok
    /\ \E o \in WeekDays :
          /\ TheSheet.cells[row_no][3].value = Str(o.key)
          /\ last_record'["surgical_date"] =
                 AddDays(parse_date_default(C17_OwnCell.s).value, o.offset)

\* C17: every day-offset value produced while parsing a sheet is the date
\* read from that sheet's own week-start cell plus the offset, never a basis
\* read from an earlier sheet, also when the sheet's own cell is empty
C17_PerSheetBasis == [][C17_DayRow => C17_OwnBasis]_vars

\* the part of C17 that holds: a sheet whose week-start cell holds a date
\* as text resolves its day offsets against that date
C17_PerSheetBasisWhenRead == [][(C17_DayRow /\ Truthy(C17_OwnCell)) => C17_OwnBasis]_vars

\* a row of the second sheet, whose week-start cell is empty, got a date of
\* the week of the first sheet
C17_EarlierBasisUsed ==
    /\ mode = "ingest" /\ pass = 1 /\ sheet_no = 2 /\ pc = "rows"
    /\ ~Truthy(C17_OwnCell)
    /\ last_event.kind = "created"
    /\ last_record["surgical_date"] = AddDays(WeekStart, 2)

-----------------------------------------------------------------------------
(* Propagation down the rows of a sheet, on Spec *)

\* the date column of the sheet is filled downwards
C18_Propagating ==
    \E col \in config.columns :
        /\ col.name = HeadDate
        /\ col.parser.db_col_name = "surgical_date"
        /\ col.parser.propagate_missing_values

\* and its parser looks at the next row first
C18_LooksAhead ==
    \E col \in config.columns : col.name = HeadDate /\ col.parser.check_next_first

\* the cell of the date column on row r
C18_DateCell(r) == TheSheet.cells[r][3].value

\* the date the rows down to r carry: the date written on r, or else the
\* one carried to the row above
RECURSIVE C18_Carried(_)
C18_Carried(r) ==
    IF r <= config.heading_row THEN None
    ELSE IF Blank(C18_DateCell(r)) THEN C18_Carried(r - 1)
    ELSE parse_date(C18_DateCell(r).s).value

\* ingest_sheet is at a row under the first whose date cell is blank
C18_BlankRow ==
    /\ AtRow
    /\ C18_Propagating
    /\ row_no > config.heading_row + 1
    /\ Blank(C18_DateCell(row_no))

\* the row's record, and so the pointer for the row after, holds the date
\* carried to the row above
C18_Holds == last_record'["surgical_date"] = C18_Carried(row_no - 1)

\* C18: the previous-record pointer advances after every data row, stored,
\* dropped or rolled back, so that in a propagating column a value carries
\* through any run of rows with blank cells: each such row's record holds it
C18_PointerAdvances == [][C18_BlankRow => C18_Holds]_vars

\* C18 for the propagating columns that do not look at the next row first
C18_PointerAdvancesWithoutLookahead ==
    [][(C18_BlankRow /\ ~C18_LooksAhead) => C18_Holds]_vars

\* the third row of a run took the date of the second, which was dropped
C18_Witness ==
    /\ mode = "ingest" /\ pass = 1 /\ pc = "rows" /\ row_no = 5
    /\ C18_Propagating /\ ~C18_LooksAhead
    /\ ~Truthy(TheSheet.cells[3][1].value)
    /\ C18_DateCell(3) = Str(January6)
    /\ Blank(C18_DateCell(4))
    /\ last_event.kind = "created"
    /\ last_record["surgical_date"] = parse_date(January6).value

\* on an .xlsx sheet a row without a date took the date of the row under
\* it, not the one carried from above
C18_NextRowTaken ==
    /\ mode = "ingest" /\ fmt = "xlsx" /\ pass = 1 /\ pc = "rows" /\ row_no = 4
    /\ C18_Propagating /\ C18_LooksAhead
    /\ Blank(C18_DateCell(3))
    /\ Len(TheSheet.cells) >= 4 /\ C18_DateCell(4) = Str(January6)
    /\ last_record["surgical_date"] = parse_date(January6).value
    /\ C18_Carried(2) = parse_date(January5).value

-----------------------------------------------------------------------------
(* The lookahead of parse_cell and the font attributes, on SpecParse *)

\* C19: with propagate_missing_values and check_next_first, parse_cell for a
\* row runs at most one nested call, on the next row's cell; that call looks
\* no further ahead, and parse_cell ends for every sheet, a column that is
\* blank in every row included
C19_BoundedLookahead ==
    (/\ mode = "parse"
     /\ parser.propagate_missing_values
     /\ parser.check_next_first)
    => (Parsed1 =>
          /\ calls \in {1, 2}
          /\ calls = 2 => (fmt = "xlsx" /\ ~previous.none)
          /\ (/\ calls = 2 /\ outcome = "ok" /\ HasNextRow /\ ~Blank(NextCell.value)
              /\ parser.data_insert_method = "replace")
                => record[parser.db_col_name] = NextCell.value)

\* the call ended on a column of three blank cells after one nested call,
\* with the previous record's value
C19_Witness ==
    /\ Parsed1 /\ outcome = "ok"
    /\ parser.propagate_missing_values /\ parser.check_next_first
    /\ Len(sheet) = 3
    /\ \A r \in 1..3 : Blank(sheet[r][1].value)
    /\ calls = 2
    /\ record["surgical_procedure"] = Str(<<"a", "b">>)

\* what reading the font attribute of the parser's cancellation mark gives
C20_Mark == FontAttr(fmt, TheCell, parser.cancellation_mark)

\* the attribute was read: a boolean or a lower-case hex colour
C20_MarkRead ==
    /\ C20_Mark.exc = "none"
    /\ \/ C20_Mark.val.t = "bool"
       \/ IsStr(C20_Mark.val) /\ Lower(C20_Mark.val.s) = C20_Mark.val.s

\* parse_cell has to look at the next row's cell
C20_Lookahead ==
    /\ parser.propagate_missing_values /\ parser.check_next_first
    /\ Blank(TheCell.value) /\ Blank(Get(given, parser.db_col_name))
    /\ ~previous.none

\* C20: for each cancellation mode and each backend, reading the font
\* attribute in parse_cell gives a boolean or a lower-case hex colour and
\* never raises, so that the row's parsing completes on either format, and
\* Cell.row and Cell.col, used by the lookahead, give indices on either format
C20_UniformCancellation ==
    Parsed1 =>
        /\ parser.cancellation_mark # "" =>
              (C20_MarkRead /\ outcome \notin {"NotImplementedError", "NameError"})
        /\ C20_Lookahead => (~CellCoordRaises(fmt) /\ outcome # "NotImplementedError")

\* the part of C20 that holds: the strike mark reads as a boolean on both
\* backends, and the row's parsing completes
C20_StrikeUniform ==
    (/\ Parsed1
     /\ parser.cancellation_mark = "strike"
     /\ ~parser.propagate_missing_values)
    => (C20_MarkRead /\ outcome = "ok")

\* the XML backend raised on the background colour
C20_BackgroundRaises ==
    /\ Parsed1 /\ fmt = "xlsx"
    /\ parser.cancellation_mark = "background"
    /\ outcome = "NotImplementedError"

\* the legacy backend raised on the foreground colour
C20_ForegroundRaises ==
    /\ Parsed1 /\ fmt = "xls"
    /\ parser.cancellation_mark = "foreground"
    /\ outcome = "NameError"

\* the legacy backend raised on the lookahead
C20_LookaheadRaises ==
    /\ Parsed1 /\ fmt = "xls"
    /\ C20_Lookahead
    /\ outcome = "NotImplementedError"


-----------------------------------------------------------------------------
(* Cancellation and the patient's fields in the store, on Spec *)

\* every stored procedure that is cancelled stays stored and cancelled
C21_StaysCancelled ==
    \A i \in DOMAIN procedures :
        procedures[i]["cancelled"] = True =>
            (i \in DOMAIN procedures' /\ procedures'[i]["cancelled"] = True)

\* C21: once a stored Procedure has cancelled = true it remains true after
\* any later upsert for the same natural key, also from a row that carries
\* no cancellation mark; a later row only turns the flag from false to true
C21_CancellationMonotone == [][C21_StaysCancelled]_vars

\* the part of C21 that holds: a row that carries the mark leaves the stored
\* procedure of its key cancelled, whatever the flag was
C21_MarkedRowCancels ==
    [][(AtRow /\ last_event'.kind = "updated" /\ Get(last_record', "cancelled") = True)
          => procedures'[last_event'.id]["cancelled"] = True]_vars

\* a row without the mark has just reset the flag of a cancelled procedure
C21_Uncancelled ==
    /\ mode = "ingest" /\ pass = 1 /\ pc = "rows" /\ row_no = 4
    /\ contents = CancelContents
    /\ TheSheet.cells[2][4].font.strike /\ ~TheSheet.cells[3][4].font.strike
    /\ last_event.kind = "updated"
    /\ procedures[last_event.id]["cancelled"] = False


-----------------------------------------------------------------------------
(* The lookahead and the cancellation flag, on SpecParse *)

\* the call ran for a propagating column with a strike mark and returned
C22_Returned ==
    /\ Parsed1 /\ outcome = "ok"
    /\ parser.propagate_missing_values
    /\ parser.cancellation_mark = "strike"

\* the flag of the record as the formatting of the row's own cell makes it
C22_OwnFlag ==
    IF TheCell.font.strike THEN True ELSE given["cancelled"]

\* C22: when parse_cell for row N looks ahead into row N+1's cell, the
\* cancelled flag of the row-N record is determined only by the formatting
\* of row N's own cell; a mark on row N+1's cell never sets it
C22_LookaheadFrame ==
    (C22_Returned /\ calls = 2) => record["cancelled"] = C22_OwnFlag

\* the part of C22 that holds: a call that does not look ahead sets the flag
\* from the formatting of its own cell alone
C22_OwnCellAlone ==
    (C22_Returned /\ calls = 1) => record["cancelled"] = C22_OwnFlag

\* the lookahead ran on a struck cell below a plain one and the record of
\* the plain row is cancelled
C22_CancelledByNextRow ==
    /\ C22_Returned /\ calls = 2
    /\ HasNextRow /\ NextCell.font.strike /\ NextCell.value = Str(<<"b">>)
    /\ ~TheCell.font.strike
    /\ given["cancelled"] = Absent
    /\ record["cancelled"] = True
    /\ record["surgical_procedure"] = Str(<<"b">>)


-----------------------------------------------------------------------------
(* Propagation and rows that end before the column, on Spec *)

\* the procedure column of the sheet is the fourth and is filled downwards
\* from the previous record alone
C23_Propagating ==
    \E col \in config.columns :
        /\ col.name = HeadOp
        /\ col.parser.db_col_name = "surgical_procedure"
        /\ col.parser.propagate_missing_values
        /\ ~col.parser.check_next_first

\* row r ends before the procedure column
C23_Short(r) == Len(TheSheet.cells[r]) < 4

\* row r supplies no procedure: it is short, or its cell is blank
C23_NoValue(r) == C23_Short(r) \/ Blank(TheSheet.cells[r][4].value)

\* the procedure the rows down to r carry: the one written on r, or else
\* the one carried to the row above
RECURSIVE C23_Carried(_)
C23_Carried(r) ==
    IF r <= config.heading_row THEN None
    ELSE IF C23_NoValue(r) THEN C23_Carried(r - 1)
    ELSE TheSheet.cells[r][4].value

\* no row from the first data row down to r is short
RECURSIVE C23_FullWidthTo(_)
C23_FullWidthTo(r) ==
    r <= config.heading_row \/ (~C23_Short(r) /\ C23_FullWidthTo(r - 1))

\* ingest_sheet is at a row under the first that supplies no procedure
C23_RowWithoutValue ==
    /\ AtRow
    /\ C23_Propagating
    /\ row_no > config.heading_row + 1
    /\ C23_NoValue(row_no)

\* the row's record, and so the pointer for the row after, holds the
\* procedure carried to the row above
C23_Holds == last_record'["surgical_procedure"] = C23_Carried(row_no - 1)

\* C23: a propagating column is filled from the previous row's record in
\* every row that supplies no value for it, a row shorter than the column's
\* index included: the short row's record holds the previous row's value and
\* the rows after it propagate from it in turn
C23_ShortRowsPropagate == [][C23_RowWithoutValue => C23_Holds]_vars

\* the part of C23 that holds: the value carries through the rows with a
\* blank cell as long as no row above is short
C23_FullWidthRowsPropagate ==
    [][(C23_RowWithoutValue /\ C23_FullWidthTo(row_no)) => C23_Holds]_vars

\* the column is skipped on a short row: its record has no entry for it
C23_ShortRowSkipped ==
    [][(C23_RowWithoutValue /\ C23_Short(row_no))
          => last_record'["surgical_procedure"] = Absent]_vars

\* a short row under the first was dropped without a procedure
C23_ShortRowDropped ==
    /\ mode = "ingest" /\ pass = 1 /\ pc = "rows" /\ row_no = 4
    /\ C23_Propagating
    /\ TheSheet.cells[2][4].value = Str(Knee)
    /\ C23_Short(3)
    /\ last_event.kind = "dropped"
    /\ last_record["surgical_procedure"] = Absent
    /\ last_record["surgical_date"] = parse_date(January6).value

\* the row after a short row, with a blank cell, took no procedure either
C23_ChainBroken ==
    /\ mode = "ingest" /\ pass = 1 /\ pc = "rows" /\ row_no = 5
    /\ C23_Propagating
    /\ TheSheet.cells[2][4].value = Str(Knee)
    /\ C23_Short(3)
    /\ ~C23_Short(4) /\ Blank(TheSheet.cells[4][4].value)
    /\ last_event.kind = "dropped"
    /\ ~Truthy(last_record["surgical_procedure"])


-----------------------------------------------------------------------------
(* The patient's fields in the store, on Spec *)

\* the Patient that procedure_constructor makes of the row's record
C24_Candidate == procedure_constructor(last_record').patient

\* the store holds a Patient with the row's idmrn that has every non-null
\* patient field of the row
C24_PatientHolds ==
    \E p \in patients' :
        /\ p["idmrn"] = Attr(C24_Candidate, "idmrn")
        /\ \A name \in PatientCols :
              Attr(C24_Candidate, name) # None => p[name] = Attr(C24_Candidate, name)

\* C24: whenever a complete row is persisted, the non-null patient fields
\* it carries are written to the stored Patient with that idmrn, both when
\* the procedure is new and when the row matches a stored Procedure by
\* natural key
C24_PatientFieldsWritten ==
    [][(AtRow /\ last_event'.kind \in {"created", "updated"}) => C24_PatientHolds]_vars

\* the part of C24 that holds: the row of a new procedure writes its patient
\* fields
C24_PatientFieldsWrittenWhenNew ==
    [][(AtRow /\ last_event'.kind = "created") => C24_PatientHolds]_vars

\* an update leaves every stored Patient as it was
C24_UpdateKeepsPatients ==
    [][(AtRow /\ last_event'.kind = "updated") => patients' = patients]_vars

\* a row with a sex has just updated a procedure whose patient has none,
\* and the patient still has none
C24_PatientStale ==
    /\ mode = "ingest" /\ pass = 1 /\ pc = "rows" /\ row_no = 4
    /\ contents = FullContents /\ Len(TheSheet.cells) >= 3
    /\ TheSheet.cells[2][6].value = None
    /\ TheSheet.cells[3][6].value = Num(1)
    /\ last_event.kind = "updated"
    /\ last_record["sex"] = Num(1)
    /\ \A p \in patients : p["idmrn"] = Str(Mrn001) /\ p["sex"] = None

\* a row of a new procedure has just written its sex to the stored patient
C24_PatientMerged ==
    /\ mode = "ingest" /\ pass = 1 /\ pc = "rows" /\ row_no = 4
    /\ contents = FullContents /\ Len(TheSheet.cells) >= 3
    /\ TheSheet.cells[2][6].value = Num(1)
    /\ TheSheet.cells[3][6].value = Num(2)
    /\ last_event.kind = "created"
    /\ \A p \in patients : p["idmrn"] = Str(Mrn001) /\ p["sex"] = Num(2)

=============================================================================
